---- MODULE Spec2Model ----
(***************************************************************************)
(* The Hybrid Code Knowledge Graph of scripts/hybrid_graph.py as a state   *)
(* machine: the in-memory HybridGraph (nodes, edges, neighbors,            *)
(* access_history, comod_matrix), the operations that mutate and query it, *)
(* the snapshot round trip, and build_hybrid_graph over a small world of   *)
(* files, a call-graph snapshot and a commit log.                          *)
(*                                                                         *)
(* Representation.                                                         *)
(*  - Strings the code takes apart (ids, paths, names, queries, log lines) *)
(*    are sequences of one-character strings.                              *)
(*  - Scores and weights are Python floats, IEEE-754 doubles.  A float x  *)
(*    is held exactly, as the digits of x * 2^65 in base 2^13; sums and    *)
(*    products are rounded to 53 significant bits, to nearest and ties to  *)
(*    even, so 0.3 * 0.2 and 0.2 * 0.3 after accumulation differ as they   *)
(*    do in the program.  Values from 2^-13 up to 4096 are exact doubles.  *)
(*  - Timestamps are whole seconds; on whole seconds isoformat() + 'Z'     *)
(*    has one fixed width, so the code's string comparison is the          *)
(*    comparison of the numbers.                                           *)
(*  - A Python dict is a sequence (insertion order) where the order is     *)
(*    observable (nodes) and a function otherwise (edges, comod_matrix).   *)
(*  - A Python set of strings iterates in an order fixed by the hash       *)
(*    layout, not by insertion; neighbors[k] is kept as that iteration     *)
(*    order and every insertion may place the new member anywhere.         *)
(***************************************************************************)
EXTENDS Integers, Sequences, FiniteSets, TLC

\* ------------------------------------------------------------------ numbers

Min(a, b) == IF a < b THEN a ELSE b

Max(a, b) == IF a > b THEN a ELSE b

\* One digit of a float: a float x is the natural number x * 2^65 written
\* in base Limb, least significant digit first, six digits long.
Limb == 2^13

\* 0.0
Zero == <<0, 0, 0, 0, 0, 0>>

\* 1.0
One == <<0, 0, 0, 0, 0, 1>>

\* the sequence a written out, item by item
Items(a) == SubSeq(a, 1, Len(a))

\* int.bit_length() of one digit
BitLength(n) == CHOOSE k \in 0..13 : n < 2^k /\ (k = 0 \/ n >= 2^(k - 1))

\* the digits of a sequence of column sums
RECURSIVE Carry(_, _, _)
Carry(columns, i, carry) ==
    IF i > Len(columns) THEN <<>>
    ELSE LET t == columns[i] + carry
         IN  <<t % Limb>> \o Carry(columns, i + 1, t \div Limb)

RECURSIVE Leading(_, _)
\* the position of the leading digit among the first i, 0 when all are 0
Leading(a, i) == IF i = 0 \/ a[i] # 0 THEN i ELSE Leading(a, i - 1)

\* the number of bits of a
Bits(a) ==
    LET top == Leading(a, Len(a))
    IN  IF top = 0 THEN 0 ELSE 13 * (top - 1) + BitLength(a[top])

\* bit d of a, bit 0 the lowest
Bit(a, d) == (a[d \div 13 + 1] \div 2^(d % 13)) % 2

\* a with its d lowest bits cleared
ClearLow(a, d) ==
    Items([i \in 1..Len(a) |->
               IF 13 * i <= d THEN 0
               ELSE IF 13 * (i - 1) >= d THEN a[i]
               ELSE a[i] - (a[i] % 2^(d - 13 * (i - 1)))])

\* the d lowest bits of a are 0
LowZero(a, d) ==
    \A i \in 1..Len(a) :
        \/ 13 * (i - 1) >= d
        \/ 13 * i <= d /\ a[i] = 0
        \/ 13 * i > d /\ a[i] % 2^(d - 13 * (i - 1)) = 0

\* a + 2^d
AddBit(a, d) ==
    Carry(Items([i \in 1..Len(a) |->
                     a[i] + (IF i = d \div 13 + 1 THEN 2^(d % 13) ELSE 0)]), 1, 0)

\* IEEE-754 rounding of a double: 53 significant bits are kept, to nearest
\* and ties to even; at least `least` bits are dropped, `inexact` tells that
\* a is itself a truncation
RoundDouble(a, least, inexact) ==
    LET d == Max(Bits(a) - 53, least)
        up == /\ d > 0
              /\ Bit(a, d - 1) = 1
              /\ (inexact \/ ~LowZero(a, d - 1) \/ Bit(a, d) = 1)
    IN  IF up THEN AddBit(ClearLow(a, d), d) ELSE ClearLow(a, d)

\* the digits of x + y
Sum(x, y) ==
    IF x = Zero THEN y
    ELSE IF y = Zero THEN x
    ELSE RoundDouble(Carry(Items([i \in 1..Len(x) |-> x[i] + y[i]]), 1, 0), 0, FALSE)

\* the column sums of the long multiplication of x and y, six digits each
Columns(x, y) ==
    <<x[1] * y[1],
      x[1] * y[2] + x[2] * y[1],
      x[1] * y[3] + x[2] * y[2] + x[3] * y[1],
      x[1] * y[4] + x[2] * y[3] + x[3] * y[2] + x[4] * y[1],
      x[1] * y[5] + x[2] * y[4] + x[3] * y[3] + x[4] * y[2] + x[5] * y[1],
      x[1] * y[6] + x[2] * y[5] + x[3] * y[4] + x[4] * y[3] + x[5] * y[2] + x[6] * y[1],
      x[2] * y[6] + x[3] * y[5] + x[4] * y[4] + x[5] * y[3] + x[6] * y[2],
      x[3] * y[6] + x[4] * y[5] + x[5] * y[4] + x[6] * y[3],
      x[4] * y[6] + x[5] * y[5] + x[6] * y[4],
      x[5] * y[6] + x[6] * y[5],
      x[6] * y[6],
      0>>

\* the digits of x * y
Product(x, y) ==
    IF x = Zero \/ y = Zero THEN Zero
    ELSE SubSeq(RoundDouble(Carry(Columns(x, y), 1, 0), 65, FALSE), 6, 11)

\* the digits of x are below those of y
Below(x, y) ==
    \E i \in 1..Len(x) : x[i] < y[i] /\ \A j \in (i + 1)..Len(x) : x[j] = y[j]

\* The float operations.  Python evaluates both operands, once, before it
\* applies the operator: a and b are the values of x and y.

\* x + y
FAdd(x, y) == CHOOSE sum \in {Sum(a, b) : a \in {x}, b \in {y}} : TRUE

\* x * y
FMul(x, y) == CHOOSE product \in {Product(a, b) : a \in {x}, b \in {y}} : TRUE

\* x < y
FLess(x, y) == \E a \in {x}, b \in {y} : Below(a, b)

\* x <= y
FLeq(x, y) == \E a \in {x}, b \in {y} : a = b \/ Below(a, b)

\* min(x, y)
FMin(x, y) == CHOOSE least \in {IF Below(b, a) THEN b ELSE a : a \in {x}, b \in {y}} : TRUE

\* max(x, y)
FMax(x, y) == CHOOSE most \in {IF Below(a, b) THEN b ELSE a : a \in {x}, b \in {y}} : TRUE

\* long division of a by den from digit i down
RECURSIVE Divide(_, _, _, _)
Divide(a, den, i, rem) ==
    IF i = 0 THEN [quotient |-> <<>>, rest |-> rem]
    ELSE LET cur == rem * Limb + a[i]
             low == Divide(a, den, i - 1, cur % den)
         IN  [quotient |-> Append(low.quotient, cur \div den), rest |-> low.rest]

\* the float a decimal literal or an int denotes: num / den, rounded
Float(num, den) ==
    LET d == Divide(<<0, 0, 0, 0, 0, 0, num>>, den, 7, 0)
    IN  SubSeq(RoundDouble(d.quotient, 13, d.rest # 0), 2, 7)

\* float(n) of an int n
FromInt(n) == <<0, 0, 0, 0, 0, n>>

\* the float literals of the program
PointZeroFive == Float(5, 100)

PointOne == Float(1, 10)

PointTwo == Float(2, 10)

PointThree == Float(3, 10)

PointFive == Float(5, 10)

PointEight == Float(8, 10)

\* x * 0.1
Tenth(x) == FMul(x, PointOne)

\* ------------------------------------------------------------------ strings

Lower(c) ==
    CASE c = "A" -> "a"
      [] c = "B" -> "b"
      [] c = "C" -> "c"
      [] c = "D" -> "d"
      [] OTHER -> c

\* str.lower()
LowerStr(s) == [i \in 1..Len(s) |-> Lower(s[i])]

\* sub in s
Contains(sub, s) ==
    \E i \in 0..(Len(s) - Len(sub)) : SubSeq(s, i + 1, i + Len(sub)) = sub

\* s.endswith(suf)
EndsWith(s, suf) ==
    /\ Len(s) >= Len(suf)
    /\ SubSeq(s, Len(s) - Len(suf) + 1, Len(s)) = suf

DotPy == <<".", "p", "y">>

Slash == <<"/">>

\* Path.name: the last component of the path
PathName(p) ==
    LET cuts == {i \in 1..Len(p) : p[i] = "/"}
        last == IF cuts = {} THEN 0 ELSE CHOOSE i \in cuts : \A j \in cuts : j <= i
    IN  SubSeq(p, last + 1, Len(p))

\* root / f for a relative f
JoinPath(root, f) == root \o Slash \o f

\* f"{source}|{target}"
EdgeId(source, target) == source \o <<"|">> \o target

\* ------------------------------------------------------------------ sequences

Range(s) == {s[i] : i \in 1..Len(s)}

InSeq(x, s) == \E i \in 1..Len(s) : s[i] = x

Reverse(s) == [i \in 1..Len(s) |-> s[Len(s) + 1 - i]]

\* seq[:limit]
SliceTo(s, limit) ==
    IF limit >= 0 THEN SubSeq(s, 1, Min(limit, Len(s)))
    ELSE SubSeq(s, 1, Max(0, Len(s) + limit))

\* seq[-n:] for n > 0
LastN(s, n) == SubSeq(s, Max(1, Len(s) - n + 1), Len(s))

InsertAt(s, i, x) == SubSeq(s, 1, i - 1) \o <<x>> \o SubSeq(s, i, Len(s))

\* ------------------------------------------------------------------ the world

\* the project root and the files that can exist under it (relative paths)
Root == <<"/", "r">>

FileA == <<"a", ".", "p", "y">>

FileB == <<"B", ".", "p", "y">>

FileAC == <<"a", "/", "c", ".", "p", "y">>

FileTxt == <<"n", ".", "t", "x", "t">>

RelFiles == {FileA, FileB, FileAC}

IdA == JoinPath(Root, FileA)

IdB == JoinPath(Root, FileB)

IdAC == JoinPath(Root, FileAC)

\* every id the model passes to the graph: str(path) of a file under the root
IdPool == {JoinPath(Root, f) : f \in RelFiles}

StructuralKinds == {"calls", "imports", "inherits"}

Kinds == StructuralKinds \cup {"accessed_together", "modified_together", "similar"}

\* ------------------------------------------------------------------ HybridNode, HybridEdge

\* HybridNode(id, node_type, path, name) with the dataclass defaults;
\* last_accessed is <<>> for "" and <<t>> for a timestamp.
\* semantic_embedding and last_modified are never read or written.
NewNode(id, node_type, path, name) ==
    [id |-> id, node_type |-> node_type, path |-> path, name |-> name,
     structural_score |-> Zero, temporal_score |-> Zero, comod_score |-> Zero,
     last_accessed |-> <<>>, access_count |-> 0]

\* HybridEdge(source, target) with the dataclass defaults;
\* last_updated is <<>> for "" and <<t>> for a timestamp.
NewEdge(source, target) ==
    [source |-> source, target |-> target,
     structural_weight |-> Zero, temporal_weight |-> Zero,
     comod_weight |-> Zero, semantic_weight |-> Zero,
     relationship_types |-> <<>>, last_updated |-> <<>>]

\* HybridEdge.get_combined_weight
GetCombinedWeight(e) ==
    FAdd(FAdd(FAdd(FMul(e.structural_weight, PointThree),
                   FMul(e.temporal_weight, PointTwo)),
              FMul(e.comod_weight, PointThree)),
         FMul(e.semantic_weight, PointTwo))

\* ------------------------------------------------------------------ HybridGraph

\* HybridGraph(root): the graph as a value.  `inserted` is a history field:
\* the order in which each neighbors set received its members.
EmptyGraph ==
    [nodes |-> <<>>,
     edges |-> [k \in {} |-> NewEdge(<<>>, <<>>)],
     neighbors |-> [k \in IdPool |-> <<>>],
     inserted |-> [k \in IdPool |-> <<>>],
     access_history |-> <<>>,
     comod_matrix |-> [x \in IdPool |-> [y \in IdPool |-> 0]]]

NodeIds(g) == {g.nodes[i].id : i \in 1..Len(g.nodes)}

NodeIndex(g, id) == CHOOSE i \in 1..Len(g.nodes) : g.nodes[i].id = id

NodeOf(g, id) == g.nodes[NodeIndex(g, id)]

\* HybridGraph.add_node: self.nodes[node.id] = node
AddNodeG(g, node) ==
    IF node.id \in NodeIds(g)
    THEN [g EXCEPT !.nodes[NodeIndex(g, node.id)] = node]
    ELSE [g EXCEPT !.nodes = Append(@, node)]

\* set.add on a neighbors set: a new member is appended (its place in the
\* iteration order is chosen by the action, see IterOrders)
SetAdd(s, x) == IF InSeq(x, s) THEN s ELSE Append(s, x)

StructuralUpdateSum(old, weight) == FAdd(old, weight)

\* edge.structural_weight = max(edge.structural_weight, weight)
StructuralUpdate(old, weight) == FMax(old, weight)

TemporalUpdateUncapped(old, weight) == FAdd(old, Tenth(weight))

\* edge.temporal_weight = min(1.0, edge.temporal_weight + weight * 0.1)
TemporalUpdate(old, weight) == FMin(One, FAdd(old, Tenth(weight)))

\* edge.comod_weight = min(1.0, edge.comod_weight + weight * 0.1)
ComodUpdate(old, weight) == FMin(One, FAdd(old, Tenth(weight)))

\* edge.semantic_weight = max(edge.semantic_weight, weight)
SemanticUpdate(old, weight) == FMax(old, weight)

\* a faulty variant: only the source's set gains a member
NeighborsAddOneWay(index, source, target) ==
    [index EXCEPT ![source] = SetAdd(@, target)]

\* the neighbor index update of add_edge: each end gains the other
NeighborsAdd(index, source, target) ==
    LET n1 == [index EXCEPT ![source] = SetAdd(@, target)]
    IN  [n1 EXCEPT ![target] = SetAdd(@, source)]

\* HybridGraph.add_edge at time ts
AddEdgeG(g, source, target, relationship_type, weight, ts) ==
    LET edge_id == EdgeId(source, target)
        e0 == IF edge_id \in DOMAIN g.edges THEN g.edges[edge_id]
              ELSE NewEdge(source, target)
        e1 == [e0 EXCEPT !.last_updated = <<ts>>,
                         !.relationship_types =
                             IF InSeq(relationship_type, @) THEN @
                             ELSE Append(@, relationship_type)]
        e2 == IF relationship_type \in StructuralKinds
                  THEN [e1 EXCEPT !.structural_weight = StructuralUpdate(@, weight)]
              ELSE IF relationship_type = "accessed_together"
                  THEN [e1 EXCEPT !.temporal_weight = TemporalUpdate(@, weight)]
              ELSE IF relationship_type = "modified_together"
                  THEN [e1 EXCEPT !.comod_weight = ComodUpdate(@, weight)]
              ELSE IF relationship_type = "similar"
                  THEN [e1 EXCEPT !.semantic_weight = SemanticUpdate(@, weight)]
              ELSE e1
    IN  [g EXCEPT !.edges = (edge_id :> e2) @@ g.edges,
                  !.neighbors = NeighborsAdd(@, source, target),
                  !.inserted = NeighborsAdd(@, source, target)]

\* ------------------------------------------------------------------ record_access

\* len(self.access_history) > 1000
HistoryCap == 1000

\* timedelta(minutes=5), in seconds
AccessWindow == 300

\* recent[-5:]
AccessFanout == 5

\* weight=0.5
AccessWeight == PointFive

\* [nid for nid, ts in self.access_history if ts > cutoff and nid != node_id]
RecentOthers(history, node_id, cutoff) ==
    LET Keep(e) == e.ts > cutoff /\ e.id # node_id
        kept == SelectSeq(history, Keep)
    IN  [i \in 1..Len(kept) |-> kept[i].id]

RECURSIVE AddAccessEdges(_, _, _, _)
\* for other_id in ...: self.add_edge(node_id, other_id, 'accessed_together', weight=0.5)
AddAccessEdges(g, node_id, others, ts) ==
    IF others = <<>> THEN g
    ELSE AddAccessEdges(
             AddEdgeG(g, node_id, Head(others), "accessed_together", AccessWeight, ts),
             node_id, Tail(others), ts)

\* a faulty variant: the first 1000 entries are kept, the newest dropped
HistoryAfterOldest(g, node_id, ts) ==
    LET h1 == Append(g.access_history, [id |-> node_id, ts |-> ts])
    IN  IF Len(h1) > HistoryCap THEN SubSeq(h1, 1, HistoryCap) ELSE h1

\* self.access_history after the append and the cap
HistoryAfter(g, node_id, ts) ==
    LET h1 == Append(g.access_history, [id |-> node_id, ts |-> ts])
    IN  IF Len(h1) > HistoryCap THEN LastN(h1, HistoryCap) ELSE h1

\* recent[-5:]: the ids whose edge from node_id this call strengthens
AccessTargets(g, node_id, ts) ==
    LastN(RecentOthers(HistoryAfter(g, node_id, ts), node_id, ts - AccessWindow),
          AccessFanout)

\* HybridGraph.record_access at time ts (both utcnow() reads give ts)
RecordAccessG(g, node_id, ts) ==
    LET g1 == [g EXCEPT !.access_history = HistoryAfter(g, node_id, ts)]
        g2 == IF node_id \in NodeIds(g1)
              THEN [g1 EXCEPT !.nodes[NodeIndex(g1, node_id)] =
                        [@ EXCEPT !.last_accessed = <<ts>>,
                                  !.access_count = @ + 1]]
              ELSE g1
    IN  AddAccessEdges(g2, node_id, AccessTargets(g, node_id, ts), ts)

\* ------------------------------------------------------------------ record_comodification

RECURSIVE PairsOf(_)
\* the (f1, f2) visited by: for i, f1 in enumerate(files): for f2 in files[i+1:]
PairsOf(files) ==
    IF Len(files) < 2 THEN <<>>
    ELSE [j \in 1..(Len(files) - 1) |-> <<files[1], files[j + 1]>>]
             \o PairsOf(Tail(files))

\* a faulty variant: only one direction is counted
ComodIncOneWay(m, f1, f2) == [m EXCEPT ![f1][f2] = @ + 1]

\* a faulty variant: only the second of the two entries is raised
ComodIncBackOnly(m, f1, f2) == [m EXCEPT ![f2][f1] = @ + 1]

\* self.comod_matrix[f1][f2] += 1; self.comod_matrix[f2][f1] += 1
ComodInc(m, f1, f2) ==
    LET m1 == [m EXCEPT ![f1][f2] = @ + 1]
    IN  [m1 EXCEPT ![f2][f1] = @ + 1]

\* the body of the inner loop: count, weight = min(1.0, count * 0.2), add_edge
ComodStep(g, f1, f2, ts) ==
    LET m == ComodInc(g.comod_matrix, f1, f2)
        count == m[f1][f2]
        weight == FMin(One, FMul(FromInt(count), PointTwo))
    IN  AddEdgeG([g EXCEPT !.comod_matrix = m], f1, f2, "modified_together", weight, ts)

RECURSIVE ComodLoop(_, _, _)
\* the two loops, pair by pair; clock[i] is what utcnow() gives the add_edge
\* of the i-th pair
ComodLoop(g, pairs, clock) ==
    IF pairs = <<>> THEN g
    ELSE ComodLoop(ComodStep(g, Head(pairs)[1], Head(pairs)[2], Head(clock)),
                   Tail(pairs), Tail(clock))

\* HybridGraph.record_comodification, every add_edge of it at time ts
RecordComodificationG(g, files, ts) ==
    ComodLoop(g, PairsOf(files), [i \in 1..Len(PairsOf(files)) |-> ts])

\* ------------------------------------------------------------------ queries

\* list.sort / sorted on the key `score`: a stable ascending sort
RECURSIVE StableAsc(_)
StableAsc(s) ==
    IF s = <<>> THEN <<>>
    ELSE LET init == StableAsc(SubSeq(s, 1, Len(s) - 1))
             x == s[Len(s)]
             k == Cardinality({i \in 1..Len(init) : FLeq(init[i].score, x.score)})
         IN  InsertAt(init, k + 1, x)

\* a faulty variant: sort ascending, then reverse (ties come out reversed)
SortDescReversed(s) == Reverse(StableAsc(s))

\* sorted(..., key=lambda x: x[1], reverse=True): descending, and reverse=True
\* keeps the original order of equal keys (reverse, stable sort, reverse)
SortDesc(s) == Reverse(StableAsc(Reverse(s)))

\* a faulty variant: the edge from the neighbor is tried first
RelatedEdgeIdReversed(g, query_id, neighbor_id) ==
    IF EdgeId(neighbor_id, query_id) \in DOMAIN g.edges
    THEN EdgeId(neighbor_id, query_id)
    ELSE EdgeId(query_id, neighbor_id)

\* edge_id = f"{query_id}|{neighbor_id}", or the reversed key when that is absent
RelatedEdgeId(g, query_id, neighbor_id) ==
    IF EdgeId(query_id, neighbor_id) \in DOMAIN g.edges
    THEN EdgeId(query_id, neighbor_id)
    ELSE EdgeId(neighbor_id, query_id)

\* a faulty variant: no test that query_id is a node
GetRelatedNodesUnchecked(g, query_id, limit) ==
    LET nb == IF query_id \in DOMAIN g.neighbors THEN g.neighbors[query_id] ELSE <<>>
        Has(n) == RelatedEdgeId(g, query_id, n) \in DOMAIN g.edges
        kept == SelectSeq(nb, Has)
        scores == [i \in 1..Len(kept) |->
                     [key |-> kept[i],
                      score |-> GetCombinedWeight(
                                    g.edges[RelatedEdgeId(g, query_id, kept[i])])]]
    IN  SliceTo(SortDesc(scores), limit)

\* HybridGraph.get_related_nodes: (neighbor, score) pairs as [key, score]
GetRelatedNodes(g, query_id, limit) ==
    IF query_id \notin NodeIds(g) THEN <<>>
    ELSE LET nb == IF query_id \in DOMAIN g.neighbors
                   THEN g.neighbors[query_id] ELSE <<>>
             Has(n) == RelatedEdgeId(g, query_id, n) \in DOMAIN g.edges
             kept == SelectSeq(nb, Has)
             scores == Items([i \in 1..Len(kept) |->
                                 [key |-> kept[i],
                                  score |-> GetCombinedWeight(
                                      g.edges[RelatedEdgeId(g, query_id, kept[i])])]])
         IN  SliceTo(SortDesc(scores), limit)

\* a faulty variant: the path boost only when the name did not match
SearchScoreElif(node, query_lower) ==
    LET boost == IF Contains(query_lower, LowerStr(node.name)) THEN PointFive
                 ELSE IF Contains(query_lower, LowerStr(node.path)) THEN PointThree
                 ELSE Zero
    IN  FAdd(FAdd(FAdd(boost, FMul(node.structural_score, PointTwo)),
                  Tenth(node.temporal_score)),
             Tenth(node.comod_score))

\* the score of one node in HybridGraph.search
SearchScore(node, query_lower) ==
    LET named == IF Contains(query_lower, LowerStr(node.name))
                 THEN FAdd(Zero, PointFive) ELSE Zero
        pathed == IF Contains(query_lower, LowerStr(node.path))
                  THEN FAdd(named, PointThree) ELSE named
    IN  FAdd(FAdd(FAdd(pathed, FMul(node.structural_score, PointTwo)),
                  Tenth(node.temporal_score)),
             Tenth(node.comod_score))

\* HybridGraph.search: (node, score) pairs as [key, score]
Search(g, query, limit) ==
    LET query_lower == LowerStr(query)
        scored == Items([i \in 1..Len(g.nodes) |->
                            [key |-> g.nodes[i],
                             score |-> SearchScore(g.nodes[i], query_lower)]])
        Pos(r) == FLess(Zero, r.score)
    IN  SliceTo(SortDesc(SelectSeq(scored, Pos)), limit)

\* ------------------------------------------------------------------ to_dict / from_dict

\* HybridGraph.to_dict: nodes, edges, neighbors as lists (in the sets'
\* iteration order), comod_matrix; access_history is not written
ToDict(g) ==
    [nodes |-> g.nodes,
     edges |-> g.edges,
     neighbors |-> g.neighbors,
     comod_matrix |-> g.comod_matrix]

\* a faulty variant: only the nodes are read back
FromDictNodesOnly(d) == [EmptyGraph EXCEPT !.nodes = d.nodes]

\* HybridGraph.from_dict: a new graph; each neighbors set is rebuilt from its
\* list (set(v)), so the list order is the new insertion order
FromDict(d) ==
    [EmptyGraph EXCEPT !.nodes = d.nodes,
                       !.edges = d.edges,
                       !.neighbors = d.neighbors,
                       !.inserted = d.neighbors,
                       !.comod_matrix = d.comod_matrix]

\* ------------------------------------------------------------------ set iteration order

RECURSIVE InsertAll(_, _)
InsertAll(S, added) ==
    IF added = <<>> THEN S
    ELSE InsertAll(UNION {{InsertAt(s, i, Head(added)) : i \in 1..(Len(s) + 1)} : s \in S},
                   Tail(added))

\* the iteration orders a set can have after the members new \ old were added
\* to a set that iterated as `old` (no resize: old members keep their order)
IterOrders(old, new) == InsertAll({old}, SubSeq(new, Len(old) + 1, Len(new)))

\* the neighbors index after a handler turned oldNb into newNb (members appended)
Rehash(oldNb, newNb) ==
    LET all == UNION {IterOrders(oldNb[k], newNb[k]) : k \in DOMAIN newNb}
    IN  {f \in [DOMAIN newNb -> all] :
            \A k \in DOMAIN newNb : f[k] \in IterOrders(oldNb[k], newNb[k])}

\* ------------------------------------------------------------------ build_hybrid_graph

\* find_python_files(root): the absolute paths of the listed files
FindPythonFiles(root, listing) ==
    [i \in 1..Len(listing) |-> JoinPath(root, listing[i])]

RECURSIVE AddFileNodes(_, _)
\* step 1: one 'file' node per path, id = path = str(path), name = path.name
AddFileNodes(g, paths) ==
    IF paths = <<>> THEN g
    ELSE AddFileNodes(
             AddNodeG(g, NewNode(Head(paths), "file", Head(paths), PathName(Head(paths)))),
             Tail(paths))

\* no call graph snapshot on disk: load_call_graph returns None
NoCallGraph == [exists |-> FALSE, nodes |-> [q \in {} |-> <<>>], edges |-> <<>>]

\* an edge of the loaded call graph between two known symbols of different files
CrossFile(cg, edge) ==
    /\ edge.source \in DOMAIN cg.nodes
    /\ edge.target \in DOMAIN cg.nodes
    /\ cg.nodes[edge.source] # cg.nodes[edge.target]

RECURSIVE AddStructuralEdges(_, _, _, _)
\* step 2: an edge of the loaded call graph between two known symbols of
\* different files becomes a file-level edge of weight 1.0; clock holds what
\* utcnow() gives each add_edge, in the order of the calls
AddStructuralEdges(g, cg, cgEdges, clock) ==
    IF cgEdges = <<>> THEN g
    ELSE LET edge == Head(cgEdges)
         IN  IF CrossFile(cg, edge)
             THEN AddStructuralEdges(
                      AddEdgeG(g, cg.nodes[edge.source], cg.nodes[edge.target],
                               edge.edge_type, One, Head(clock)),
                      cg, Tail(cgEdges), Tail(clock))
             ELSE AddStructuralEdges(g, cg, Tail(cgEdges), clock)

\* the number of add_edge calls of step 2
StructuralCalls(cg) ==
    IF cg.exists
    THEN Cardinality({i \in 1..Len(cg.edges) : CrossFile(cg, cg.edges[i])})
    ELSE 0

\* '-n', '100'
GitLogLimit == 100

\* the header line of the k-th commit of the branch (%H): a hash, which no
\* other commit has
HashLine(k) == <<ToString(k)>>

\* the characters of the paths of the world, in byte order
ByteOrder == <<".", "/", "B", "a", "c", "n", "p", "t", "x", "y">>

ByteOf(c) == CHOOSE i \in 1..Len(ByteOrder) : ByteOrder[i] = c

\* p sorts before q as a byte string
PathLess(p, q) ==
    \E i \in 1..(Min(Len(p), Len(q)) + 1) :
        /\ SubSeq(p, 1, i - 1) = SubSeq(q, 1, i - 1)
        /\ i <= Len(q)
        /\ (i <= Len(p) => ByteOf(p[i]) < ByteOf(q[i]))

RECURSIVE SortPaths(_)
SortPaths(S) ==
    IF S = {} THEN <<>>
    ELSE LET first == CHOOSE p \in S : \A q \in S \ {p} : PathLess(p, q)
         IN  <<first>> \o SortPaths(S \ {first})

\* the changed paths of a commit as git log --name-only lists them
ChangedPaths(paths) == SortPaths(Range(paths))

RECURSIVE GitLogLines(_, _)
\* git log --name-only --format=<header> as text lines: per commit the
\* header line (headers holds them, newest first) and, when the commit
\* changed a path, a blank line and the changed paths; the next header
\* follows the last path directly
GitLogLines(log, headers) ==
    IF log = <<>> THEN <<>>
    ELSE <<Head(headers)>>
            \o (IF Head(log) = <<>> THEN <<>> ELSE << <<>> >> \o ChangedPaths(Head(log)))
            \o GitLogLines(Tail(log), Tail(headers))

\* run_git_command(['log', '--name-only', '--format=%H', '-n', '100'])
GitLogOutput(log) ==
    LET n == Min(Len(log), GitLogLimit)
    IN  GitLogLines(SubSeq(log, 1, n), [i \in 1..n |-> HashLine(Len(log) - i + 1)])

RECURSIVE SplitBlocks(_, _)
\* output.strip().split('\n\n') followed by block.strip().split('\n'):
\* the runs of non-blank lines (cur is the run being read)
SplitBlocks(lines, cur) ==
    IF lines = <<>> THEN (IF cur = <<>> THEN <<>> ELSE <<cur>>)
    ELSE IF Head(lines) = <<>>
         THEN (IF cur = <<>> THEN <<>> ELSE <<cur>>) \o SplitBlocks(Tail(lines), <<>>)
         ELSE SplitBlocks(Tail(lines), Append(cur, Head(lines)))

\* [str(root / f) for f in lines[1:] if f.endswith('.py')]
FilesInCommit(root, lines) ==
    LET IsPy(f) == EndsWith(f, DotPy)
        kept == SelectSeq(Tail(lines), IsPy)
    IN  [i \in 1..Len(kept) |-> JoinPath(root, kept[i])]

\* the files of a block that record_comodification is called with
ComodFiles(root, lines) ==
    LET files == IF Len(lines) > 1 THEN FilesInCommit(root, lines) ELSE <<>>
    IN  IF Len(files) > 1 THEN files ELSE <<>>

RECURSIVE AddComodification(_, _, _, _)
\* step 3: every block of more than one line with more than one .py file;
\* clock holds what utcnow() gives each add_edge, in the order of the calls
AddComodification(g, root, blocks, clock) ==
    IF blocks = <<>> THEN g
    ELSE LET pairs == PairsOf(ComodFiles(root, Head(blocks)))
         IN  AddComodification(ComodLoop(g, pairs, SubSeq(clock, 1, Len(pairs))),
                               root, Tail(blocks),
                               SubSeq(clock, Len(pairs) + 1, Len(clock)))

RECURSIVE ComodCalls(_, _)
\* the number of add_edge calls of step 3
ComodCalls(root, blocks) ==
    IF blocks = <<>> THEN 0
    ELSE Len(PairsOf(ComodFiles(root, Head(blocks)))) + ComodCalls(root, Tail(blocks))

RECURSIVE SumOver(_, _)
SumOver(f, S) ==
    IF S = {} THEN 0
    ELSE LET x == CHOOSE y \in S : TRUE IN f[x] + SumOver(f, S \ {x})

\* node.structural_score = min(1.0, neighbor_count * 0.1)
StructuralScore(neighbor_count) == FMin(One, FMul(FromInt(neighbor_count), PointOne))

\* node.comod_score = min(1.0, comod_total * 0.05)
ComodScore(comod_total) == FMin(One, FMul(FromInt(comod_total), PointZeroFive))

\* step 4: the node scores
ScoreNodes(g) ==
    [g EXCEPT !.nodes =
        [i \in 1..Len(g.nodes) |->
            [g.nodes[i] EXCEPT
                !.structural_score = StructuralScore(Len(g.neighbors[g.nodes[i].id])),
                !.comod_score = ComodScore(SumOver(g.comod_matrix[g.nodes[i].id],
                                                   DOMAIN g.comod_matrix[g.nodes[i].id]))]]]

\* build_hybrid_graph(root) up to the git log it asks for: graph =
\* HybridGraph(root=root), steps 1 and 2 over the files and the call graph
\* snapshot
BuildStart(root, listing, cg, clock) ==
    LET g1 == AddFileNodes(EmptyGraph, FindPythonFiles(root, listing))
    IN  IF cg.exists THEN AddStructuralEdges(g1, cg, cg.edges, clock) ELSE g1

\* the commit blocks build_hybrid_graph reads from the log
BuildBlocks(log) == SplitBlocks(GitLogOutput(log), <<>>)

\* build_hybrid_graph(root) from the answer of git on: steps 3 and 4
BuildFinish(g, root, log, clock) ==
    ScoreNodes(AddComodification(g, root, BuildBlocks(log), clock))

\* build_hybrid_graph(root) over the files, the call graph snapshot and the
\* commit log; clock holds what utcnow() gives each add_edge, in the order
\* of the calls
BuildHybridGraph(root, listing, cg, log, clock) ==
    BuildFinish(BuildStart(root, listing, cg, SubSeq(clock, 1, StructuralCalls(cg))),
                root, log, SubSeq(clock, StructuralCalls(cg) + 1, Len(clock)))

\* ------------------------------------------------------------------ call_graph.py: CallGraph

Dot == <<".">>

\* GraphNode (line left out)
GraphNode(name, node_type, file, qualified_name) ==
    [name |-> name, node_type |-> node_type, file |-> file,
     qualified_name |-> qualified_name]

\* GraphEdge; line is the line of the statement that made the edge
GraphEdge(source, target, edge_type, file, line) ==
    [source |-> source, target |-> target, edge_type |-> edge_type,
     file |-> file, line |-> line]

\* CallGraph(root): nodes in dict order, callers and callees as dicts of lists
EmptyCallGraph ==
    [nodes |-> <<>>, edges |-> <<>>,
     callers |-> [k \in {} |-> <<>>], callees |-> [k \in {} |-> <<>>]]

CgNames(cg) == {cg.nodes[i].qualified_name : i \in 1..Len(cg.nodes)}

CgIndex(cg, q) == CHOOSE i \in 1..Len(cg.nodes) : cg.nodes[i].qualified_name = q

\* CallGraph.add_node: self.nodes[node.qualified_name] = node
CgAddNode(cg, node) ==
    IF node.qualified_name \in CgNames(cg)
    THEN [cg EXCEPT !.nodes[CgIndex(cg, node.qualified_name)] = node]
    ELSE [cg EXCEPT !.nodes = Append(@, node)]

\* a faulty variant: the member is appended without the membership test
IndexAddAlways(index, key, member) ==
    LET old == IF key \in DOMAIN index THEN index[key] ELSE <<>>
    IN  (key :> Append(old, member)) @@ index

\* the index update of CallGraph.add_edge: index[key] gains member once
IndexAdd(index, key, member) ==
    LET old == IF key \in DOMAIN index THEN index[key] ELSE <<>>
    IN  (key :> SetAdd(old, member)) @@ index

\* CallGraph.add_edge
CgAddEdge(cg, edge) ==
    [cg EXCEPT !.edges = Append(@, edge),
               !.callers = IndexAdd(@, edge.target, edge.source),
               !.callees = IndexAdd(@, edge.source, edge.target)]

\* ------------------------------------------------------------------ call_graph.py: the syntax trees

\* ast.Name
Name(id) == [kind |-> "Name", id |-> id]

\* ast.Attribute: value.attr
Attribute(value, attr) == [kind |-> "Attribute", value |-> value, attr |-> attr]

\* ast.Call: func(args)
Call(func, args, line) == [kind |-> "Call", func |-> func, args |-> args, line |-> line]

\* ast.Import with one alias: import name [as asname]  (<<>>: no asname)
Import(name, asname, line) ==
    [kind |-> "Import", name |-> name, asname |-> asname, line |-> line]

\* ast.ImportFrom with one alias: from module import name [as asname]
\* (module <<>>: from . import name)
ImportFrom(module, name, asname, line) ==
    [kind |-> "ImportFrom", module |-> module, name |-> name, asname |-> asname,
     line |-> line]

\* ast.FunctionDef / ast.AsyncFunctionDef, its fields in the order of
\* _fields; args holds the expressions of the argument list (annotations and
\* defaults) as generic_visit reaches them, returns the return annotation
\* (<<>>: none)
FunctionDef(name, args, body, decorator_list, returns, line) ==
    [kind |-> "FunctionDef", name |-> name, args |-> args, body |-> body,
     decorator_list |-> decorator_list, returns |-> returns, line |-> line]

\* ast.ClassDef, its fields in the order of _fields (no keywords)
ClassDef(name, bases, body, decorator_list, line) ==
    [kind |-> "ClassDef", name |-> name, bases |-> bases, body |-> body,
     decorator_list |-> decorator_list, line |-> line]

\* ------------------------------------------------------------------ call_graph.py: CallGraphBuilder

\* a faulty variant: leaving a function leaves no function current
LeaveFunctionUnset(b, old_function) == [b EXCEPT !.current_function = <<>>]

\* self.current_function = old_function, on the way out of _visit_function
LeaveFunction(b, old_function) == [b EXCEPT !.current_function = old_function]

\* CallGraphBuilder(graph, file_path, module_name); None is the empty string
NewBuilder(graph, file_path, module_name) ==
    [graph |-> graph, file_path |-> file_path, module_name |-> module_name,
     current_class |-> <<>>, current_function |-> <<>>,
     imports |-> [k \in {} |-> <<>>]]

\* a faulty variant: the class is left out of the scope
GetCurrentScopeNoClass(b) ==
    b.module_name \o (IF b.current_function # <<>> THEN Dot \o b.current_function ELSE <<>>)

\* '.'.join(parts) of get_current_scope
GetCurrentScope(b) ==
    b.module_name
        \o (IF b.current_class # <<>> THEN Dot \o b.current_class ELSE <<>>)
        \o (IF b.current_function # <<>> THEN Dot \o b.current_function ELSE <<>>)

\* self.imports.get(id, id)
ImportsGet(imports, id) == IF id \in DOMAIN imports THEN imports[id] ELSE id

RECURSIVE GetName(_, _)
\* CallGraphBuilder._get_name: <<>> stands for None
GetName(imports, node) ==
    IF node.kind = "Name" THEN ImportsGet(imports, node.id)
    ELSE IF node.kind = "Attribute"
         THEN LET prefix == IF node.value.kind \in {"Name", "Attribute"}
                            THEN GetName(imports, node.value) ELSE <<>>
              IN  IF prefix = <<>> THEN node.attr ELSE prefix \o Dot \o node.attr
         ELSE <<>>

RECURSIVE Visit(_, _)
RECURSIVE VisitAll(_, _)

\* generic_visit over a list of child nodes, in order: each child is visited
\* to completion before the next one starts (no visitor changes module_name)
VisitAll(b, children) ==
    IF children = <<>> THEN b
    ELSE LET b1 == Visit(b, Head(children))
         IN  IF b.module_name = b1.module_name THEN VisitAll(b1, Tail(children)) ELSE b1

\* visit_Import
VisitImport(b, node) ==
    LET name == IF node.asname # <<>> THEN node.asname ELSE node.name
    IN  [b EXCEPT !.imports = (name :> node.name) @@ @,
                  !.graph = CgAddEdge(@, GraphEdge(b.module_name, node.name, "imports",
                                                   b.file_path, node.line))]

\* visit_ImportFrom
VisitImportFrom(b, node) ==
    IF node.module = <<>> THEN b
    ELSE LET name == IF node.asname # <<>> THEN node.asname ELSE node.name
         IN  [b EXCEPT !.imports = (name :> (node.module \o Dot \o node.name)) @@ @,
                       !.graph = CgAddEdge(@, GraphEdge(b.module_name, node.module,
                                                        "imports", b.file_path, node.line))]

RECURSIVE AddInherits(_, _, _, _)
\* the inheritance edges of visit_ClassDef
AddInherits(b, qualified_name, bases, line) ==
    IF bases = <<>> THEN b
    ELSE LET base_name == GetName(b.imports, Head(bases))
             b1 == IF base_name # <<>>
                   THEN [b EXCEPT !.graph = CgAddEdge(@, GraphEdge(qualified_name, base_name,
                                                          "inherits", b.file_path, line))]
                   ELSE b
         IN  AddInherits(b1, qualified_name, Tail(bases), line)

\* visit_ClassDef
VisitClassDef(b, node) ==
    LET qualified_name == b.module_name \o Dot \o node.name
        b1 == [b EXCEPT !.graph = CgAddNode(@, GraphNode(node.name, "class", b.file_path,
                                                        qualified_name))]
        b2 == AddInherits(b1, qualified_name, node.bases, node.line)
        old_class == b.current_class
        b3 == VisitAll([b2 EXCEPT !.current_class = node.name],
                       node.bases \o node.body \o node.decorator_list)
    IN  [b3 EXCEPT !.current_class = old_class]

\* _visit_function; generic_visit reaches the argument list, the body, the
\* decorators and the return annotation, in this order
VisitFunction(b, node) ==
    LET in_class == b.current_class # <<>>
        qualified_name == IF in_class
                          THEN b.module_name \o Dot \o b.current_class \o Dot \o node.name
                          ELSE b.module_name \o Dot \o node.name
        node_type == IF in_class THEN "method" ELSE "function"
        b1 == [b EXCEPT !.graph = CgAddNode(@, GraphNode(node.name, node_type, b.file_path,
                                                        qualified_name))]
        old_function == b.current_function
        b2 == VisitAll([b1 EXCEPT !.current_function = node.name],
                       node.args \o node.body \o node.decorator_list \o node.returns)
    IN  LeaveFunction(b2, old_function)

\* visit_Call
VisitCall(b, node) ==
    LET callee == GetName(b.imports, node.func)
        b1 == IF b.current_function # <<>> /\ callee # <<>>
              THEN [b EXCEPT !.graph = CgAddEdge(@, GraphEdge(GetCurrentScope(b), callee,
                                                     "calls", b.file_path, node.line))]
              ELSE b
    IN  VisitAll(b1, <<node.func>> \o node.args)

\* ast.NodeVisitor.visit
Visit(b, node) ==
    CASE node.kind = "Import" -> VisitImport(b, node)
      [] node.kind = "ImportFrom" -> VisitImportFrom(b, node)
      [] node.kind = "ClassDef" -> VisitClassDef(b, node)
      [] node.kind = "FunctionDef" -> VisitFunction(b, node)
      [] node.kind = "Call" -> VisitCall(b, node)
      [] node.kind = "Attribute" -> Visit(b, node.value)
      [] OTHER -> b

\* ------------------------------------------------------------------ call_graph.py: build_call_graph

\* str(relative.with_suffix('')).replace('/', '.') of a .py path
ModuleName(relative) ==
    LET stem == IF EndsWith(relative, DotPy)
                THEN SubSeq(relative, 1, Len(relative) - Len(DotPy)) ELSE relative
    IN  [i \in 1..Len(stem) |-> IF stem[i] = "/" THEN "." ELSE stem[i]]

\* a source file: its path under the root, and its text as ast.parse reads
\* it (parses: no SyntaxError; tree: the module body)
SourceFile(relative, parses, tree) ==
    [relative |-> relative, parses |-> parses, tree |-> tree]

\* a faulty variant: the module node is added before the file is parsed
BuildFileNodeFirst(graph, root, file) ==
    LET path == JoinPath(root, file.relative)
        module_name == ModuleName(file.relative)
        g1 == CgAddNode(graph, GraphNode(PathName(path), "module", path, module_name))
    IN  IF ~file.parses THEN g1
        ELSE VisitAll(NewBuilder(g1, path, module_name), file.tree).graph

\* the body of the loop over the files
BuildFile(graph, root, file) ==
    IF ~file.parses THEN graph
    ELSE LET path == JoinPath(root, file.relative)
             module_name == ModuleName(file.relative)
             g1 == CgAddNode(graph, GraphNode(PathName(path), "module", path, module_name))
         IN  VisitAll(NewBuilder(g1, path, module_name), file.tree).graph

RECURSIVE BuildFiles(_, _, _)
BuildFiles(graph, root, files) ==
    IF files = <<>> THEN graph
    ELSE LET g1 == BuildFile(graph, root, Head(files))
         IN  IF Len(graph.edges) <= Len(g1.edges) THEN BuildFiles(g1, root, Tail(files))
             ELSE g1

\* build_call_graph(root) over the files find_python_files lists
BuildCallGraph(root, files) == BuildFiles(EmptyCallGraph, root, files)

\* .mcp/call_graph.json after save_call_graph(cg), as load_call_graph and
\* build_hybrid_graph read it: the file of each qualified name, and the edges
SavedCallGraph(cg) ==
    [exists |-> TRUE,
     nodes |-> [q \in CgNames(cg) |-> cg.nodes[CgIndex(cg, q)].file],
     edges |-> cg.edges]

\* ------------------------------------------------------------------ correlation_tracker.py

\* a dict in insertion order: a sequence of [key, value] entries
DictHas(d, k) == \E i \in 1..Len(d) : d[i].key = k

DictGet(d, k, default) ==
    IF DictHas(d, k) THEN d[CHOOSE i \in 1..Len(d) : d[i].key = k].value ELSE default

\* d[k] = v: in place for a key the dict has, at the end for a new key
DictSet(d, k, v) ==
    IF DictHas(d, k)
    THEN [i \in 1..Len(d) |-> IF d[i].key = k THEN [key |-> k, value |-> v] ELSE d[i]]
    ELSE Append(d, [key |-> k, value |-> v])

\* CorrelationData(root): what load_correlations returns when there is no
\* correlations.json, or one that cannot be decoded; test_correlations is
\* never written
NewCorrelationData ==
    [comod_counts |-> <<>>, access_counts |-> <<>>, learned_patterns |-> <<>>,
     last_updated |-> <<>>, commits_analyzed |-> 0]

\* comod_counts[f1][f2], 0 when absent
ComodCount(counts, f1, f2) == DictGet(DictGet(counts, f1, <<>>), f2, 0)

\* comod_counts[f1][f2] += 1 on a defaultdict of defaultdict(int)
CountInc(counts, f1, f2) ==
    DictSet(counts, f1, DictSet(DictGet(counts, f1, <<>>), f2, ComodCount(counts, f1, f2) + 1))

\* data.comod_counts[f1][f2] += 1; data.comod_counts[f2][f1] += 1
CountPair(counts, f1, f2) == CountInc(CountInc(counts, f1, f2), f2, f1)

RECURSIVE CountPairs(_, _)
\* the two loops over py_files, pair by pair (no step removes a key)
CountPairs(counts, pairs) ==
    IF pairs = <<>> THEN counts
    ELSE LET c1 == CountPair(counts, Head(pairs)[1], Head(pairs)[2])
         IN  IF Len(counts) <= Len(c1) THEN CountPairs(c1, Tail(pairs)) ELSE c1

\* f'-n{max_commits}' with max_commits = 200
GitHistoryLimit == 200

\* the header line of the k-th commit of the branch (%H|%an|%s): its hash,
\* the author n and the subject the commit was made with
HistoryLine(k, subject) == HashLine(k) \o <<"|", "n", "|">> \o subject

\* run_git_command(['log', '--name-only', '--format=%H|%an|%s', '-n200'])
GitHistoryOutput(log, subj) ==
    LET n == Min(Len(log), GitHistoryLimit)
    IN  GitLogLines(SubSeq(log, 1, n),
                    [i \in 1..n |-> HistoryLine(Len(log) - i + 1, subj[i])])

RECURSIVE AnalyzeBlocks(_, _)
\* the loop over the commit blocks: acc is [counts, new_commits]
AnalyzeBlocks(acc, blocks) ==
    IF blocks = <<>> THEN acc
    ELSE LET lines == Head(blocks)
             files == Tail(lines)
             IsPy(f) == EndsWith(f, DotPy)
             py_files == SelectSeq(files, IsPy)
             acc1 == IF Len(files) < 2 THEN acc
                     ELSE [counts |-> CountPairs(acc.counts, PairsOf(py_files)),
                           new_commits |-> acc.new_commits + 1]
         IN  IF acc.new_commits <= acc1.new_commits THEN AnalyzeBlocks(acc1, Tail(blocks))
             ELSE acc1

\* count >= 5
PatternThreshold == 5

\* patterns[:20]
PatternLimit == 20

\* the pattern text: the two file names and the count
Pattern(f1, f2, count) == [p1 |-> PathName(f1), p2 |-> PathName(f2), count |-> count]

RECURSIVE PatternsOfRow(_, _, _)
\* the inner loop of extract_patterns over the entries of comod_counts[f1]
PatternsOfRow(patterns, f1, others) ==
    IF others = <<>> THEN patterns
    ELSE LET f2 == Head(others).key
             count == Head(others).value
             pattern == Pattern(f1, f2, count)
             p1 == IF count >= PatternThreshold /\ ~InSeq(pattern, patterns)
                   THEN Append(patterns, pattern) ELSE patterns
         IN  PatternsOfRow(p1, f1, Tail(others))

RECURSIVE PatternsOfRows(_, _)
PatternsOfRows(patterns, counts) ==
    IF counts = <<>> THEN patterns
    ELSE PatternsOfRows(PatternsOfRow(patterns, Head(counts).key, Head(counts).value),
                        Tail(counts))

\* extract_patterns(data)
ExtractPatterns(counts) ==
    LET patterns == PatternsOfRows(<<>>, counts)
    IN  SubSeq(patterns, 1, Min(Len(patterns), PatternLimit))

\* analyze_git_history(root) at time ts on the loaded data: the data it
\* returns, which is also what it saves unless the log is empty
AnalyzeGitHistory(data, log, subj, ts) ==
    LET output == GitHistoryOutput(log, subj)
        acc == AnalyzeBlocks([counts |-> data.comod_counts, new_commits |-> 0],
                             SplitBlocks(output, <<>>))
    IN  IF output = <<>> THEN data
        ELSE [comod_counts |-> acc.counts,
              access_counts |-> data.access_counts,
              learned_patterns |-> ExtractPatterns(acc.counts),
              last_updated |-> <<ts>>,
              commits_analyzed |-> data.commits_analyzed + acc.new_commits]

\* recent_key = '_recent_accesses'
RecentKey ==
    <<"_", "r", "e", "c", "e", "n", "t", "_", "a", "c", "c", "e", "s", "s", "e", "s">>

\* [...][-5:]
RecentAccesses == 5

\* record_file_access(file_path, root) at time ts on the loaded data: the
\* data it hands to save_correlations, which stamps last_updated
RecordFileAccess(data, file_path, ts) ==
    LET counts == IF DictHas(data.access_counts, RecentKey) THEN data.access_counts
                  ELSE DictSet(data.access_counts, RecentKey, <<>>)
        row == DictGet(counts, RecentKey, <<>>)
        Other(f) == f # file_path
        recent == LastN(SelectSeq([i \in 1..Len(row) |-> row[i].key], Other),
                        RecentAccesses)
        counted == CountPairs(counts, [i \in 1..Len(recent) |-> <<file_path, recent[i]>>])
        listed == DictSet(counted, RecentKey,
                          DictSet(DictGet(counted, RecentKey, <<>>), file_path, 1))
    IN  [data EXCEPT !.access_counts = listed, !.last_updated = <<ts>>]

\* ------------------------------------------------------------------ hybrid_graph.py: the snapshot

\* .mcp/hybrid_graph.json: missing, holding text json.load or from_dict
\* rejects, or holding the to_dict of a graph
NoSnapshot == [kind |-> "missing", data |-> ToDict(EmptyGraph)]

CorruptSnapshot == [kind |-> "corrupt", data |-> ToDict(EmptyGraph)]

SnapshotOf(g) == [kind |-> "ok", data |-> ToDict(g)]

\* a faulty variant: the decode error is not caught
LoadHybridGraphUncaught(file) ==
    IF file.kind = "missing" THEN [raised |-> FALSE, value |-> <<>>]
    ELSE IF file.kind = "corrupt" THEN [raised |-> TRUE, value |-> <<>>]
    ELSE [raised |-> FALSE, value |-> <<FromDict(file.data)>>]

\* load_hybrid_graph(root): whether it raised, and what it returned (<<>>
\* for None, <<g>> for a graph)
LoadHybridGraph(file) ==
    IF file.kind = "ok" THEN [raised |-> FALSE, value |-> <<FromDict(file.data)>>]
    ELSE [raised |-> FALSE, value |-> <<>>]

\* save_hybrid_graph(graph): whether it raised, and the files it can leave.
\* open(..., 'w') or json.dump fails when the file cannot be written; the
\* file is then as it was, or truncated
SaveHybridGraph(g, file, writable) ==
    IF writable THEN [raised |-> FALSE, files |-> {SnapshotOf(g)}]
    ELSE [raised |-> TRUE, files |-> {file, CorruptSnapshot}]

\* the edges hybrid_search reads the kinds of a node from: node.id in edge_id
EdgesNaming(g, id) == {k \in DOMAIN g.edges : Contains(id, k)}

\* list(s) of a set s: its members in any order
Orderings(S) == {o \in [1..Cardinality(S) -> S] : Range(o) = S}

\* the kinds hybrid_search collects for a node: rel_types.update of every
\* edge that passes `node.id in edge_id`
KindsNaming(g, id) ==
    UNION {Range(g.edges[k].relationship_types) : k \in EdgesNaming(g, id)}

\* the formatting loop of hybrid_search: (node.path, score, list(rel_types)),
\* every list that list(rel_types) can give
FormatResults(g, results) ==
    LET orders == UNION {Orderings(KindsNaming(g, results[i].key.id)) :
                            i \in 1..Len(results)}
    IN  {[i \in 1..Len(results) |->
             [key |-> results[i].key.path,
              score |-> results[i].score,
              rel_types |-> o[i]]] :
         o \in {c \in [1..Len(results) -> orders] :
                   \A i \in 1..Len(results) :
                       Range(c[i]) = KindsNaming(g, results[i].key.id)}}

\* the graph a build leaves in memory: every neighbors set was filled by
\* add_edge and iterates in one of the orders a set of its members can have
BuiltOrders(g) ==
    {[g EXCEPT !.neighbors = nb] : nb \in Rehash(EmptyGraph.neighbors, g.neighbors)}

\* hybrid_search(query, root, limit) from the answer of load_hybrid_graph
\* on: whether it built the graph, whether it raised, the files it can leave
\* and the lists it can return. loaded is what load_hybrid_graph returned,
\* graph the loaded graph or, with none loaded, what build_hybrid_graph
\* returned, file the snapshot when save_hybrid_graph opens it.
HybridSearch(query, limit, loaded, graph, file, writable) ==
    LET built == loaded.value = <<>>
        saves == IF built
                 THEN {SaveHybridGraph(h, file, writable) : h \in BuiltOrders(graph)}
                 ELSE {[raised |-> FALSE, files |-> {file}]}
        raised == loaded.raised \/ \E saved \in saves : saved.raised
    IN  [built |-> built,
         raised |-> raised,
         files |-> UNION {saved.files : saved \in saves},
         values |-> IF raised THEN {<<>>}
                    ELSE FormatResults(graph, Search(graph, query, limit))]

\* ------------------------------------------------------------------ hook_guardian.py

RecordCap == 100

HashLength == 12

MessageLength == 100

\* s[:n]
Prefix(s, n) == SubSeq(s, 1, Min(n, Len(s)))

HookRecord(commit_hash, timestamp, pre_commit_ran, post_commit_ran, message) ==
    [commit_hash |-> commit_hash, timestamp |-> timestamp,
     pre_commit_ran |-> pre_commit_ran, post_commit_ran |-> post_commit_ran,
     message |-> message]

\* GuardianData(root); records is kept in dict order
NewGuardianData == [records |-> <<>>, bypasses_detected |-> 0, total_commits |-> 0]

\* no .pre_commit_ran flag and no hook_guardian.json: load_guardian_data
\* returns GuardianData(root)
NoGuardianFiles == [flag |-> FALSE, data |-> NewGuardianData]

\* commit_hash in data.records
HasRecord(records, commit_hash) ==
    \E i \in 1..Len(records) : records[i].commit_hash = commit_hash

\* data.records[commit_hash]
RecordOf(records, commit_hash) ==
    records[CHOOSE i \in 1..Len(records) : records[i].commit_hash = commit_hash]

\* data.records[record.commit_hash] = record
PutRecord(records, record) ==
    IF HasRecord(records, record.commit_hash)
    THEN [i \in 1..Len(records) |->
             IF records[i].commit_hash = record.commit_hash THEN record ELSE records[i]]
    ELSE Append(records, record)

\* sorted(data.records.items(), key=lambda x: x[1].timestamp, reverse=True):
\* the place of record i, newest first, equal timestamps in dict order
NewestRank(records, i) ==
    1 + Cardinality({j \in 1..Len(records) :
                        \/ records[j].timestamp > records[i].timestamp
                        \/ records[j].timestamp = records[i].timestamp /\ j < i})

\* the 100 records with the newest timestamps, when there are more than 100
KeepNewestRecords(records) ==
    IF Len(records) > RecordCap
    THEN [p \in 1..RecordCap |->
             records[CHOOSE i \in 1..Len(records) : NewestRank(records, i) = p]]
    ELSE records

\* record_pre_commit: the flag file is written
RecordPreCommit(files) == [files EXCEPT !.flag = TRUE]

\* pre_commit_ran = flag_path.exists()
FlagSeen(files) == files.flag

\* record_commit at time ts; head is what git says of HEAD (<<>>: no commit).
\* The lesson and the auto-learning it triggers are kept in other files.
RecordCommit(files, head, ts) ==
    IF head = <<>> THEN files
    ELSE LET pre_commit_ran == FlagSeen(files)
             record == HookRecord(Prefix(head[1].hash, HashLength), ts, pre_commit_ran,
                                  TRUE, Prefix(head[1].message, MessageLength))
             data == files.data
         IN  [flag |-> FALSE,
              data |-> [records |-> KeepNewestRecords(PutRecord(data.records, record)),
                        total_commits |-> data.total_commits + 1,
                        bypasses_detected |->
                            data.bypasses_detected + (IF pre_commit_ran THEN 0 ELSE 1)]]

\* verify_all_commits: unpushed is the list of full hashes git printed
VerifyAllCommits(data, unpushed) ==
    IF unpushed = <<>> THEN TRUE
    ELSE LET hashes == [i \in 1..Len(unpushed) |-> Prefix(unpushed[i], HashLength)]
             IsBypass(h) == HasRecord(data.records, h)
                                /\ ~RecordOf(data.records, h).pre_commit_ran
             IsMissing(h) == ~HasRecord(data.records, h)
             bypasses == SelectSeq(hashes, IsBypass)
             missing == SelectSeq(hashes, IsMissing)
         IN  ~(bypasses # <<>> \/ missing # <<>>)

\* the branch: its commits, oldest first, each with whether its own
\* pre-commit hook ran (history), whether the branch has an upstream
\* configured and the number of commits the remote has;
\* and the git commit commands under way: `checked` of them have run their
\* pre-commit hook and not yet written their commit, `written` of them have
\* written their commit and not yet run their post-commit hook
NoCommits ==
    [commits |-> <<>>, upstream |-> FALSE, pushed |-> 0, checked |-> 0, written |-> 0]

\* git rev-parse HEAD and git log -1 --format=%s
GitHead(log) == IF log.commits = <<>> THEN <<>> ELSE <<log.commits[Len(log.commits)]>>

\* git log @{u}..HEAD --format=%H --reverse: the hashes of the commits the
\* upstream lacks, oldest first; with no upstream configured git fails and
\* there is no output
GitUnpushed(log) ==
    IF ~log.upstream THEN <<>>
    ELSE [i \in 1..(Len(log.commits) - log.pushed) |-> log.commits[log.pushed + i].hash]

\* a call that has read its file and waits for a git subprocess: the data
\* it read, what git rev-parse HEAD answered (<<>>: not asked yet), and the
\* arguments of the call
Process(op, data, query, limit) ==
    [op |-> op, data |-> data, head |-> <<>>, query |-> query, limit |-> limit]

RemoveAt(s, i) == SubSeq(s, 1, i - 1) \o SubSeq(s, i + 1, Len(s))

\* the calls that wait for git at one time
MaxWaiting == 2

\* the time up to which the clock moves while build_hybrid_graph runs
MaxBuildClock == 1

\* what n utcnow() calls in a row can give from time ts on
Clocks(ts, n) ==
    {clock \in [1..n -> ts..Max(ts, MaxBuildClock)] :
        \A i \in 1..(n - 1) : clock[i] <= clock[i + 1]}

\* the time after the readings of clock, the last of which was made at once
TimeAfter(ts, clock) == IF clock = <<>> THEN ts ELSE clock[Len(clock)]

\* the subject of a commit that names no file, and the subjects commits are
\* made with: the other names the file it fixes and so ends in .py
PlainSubject == <<"m">>

Subjects == {PlainSubject, <<"f", "i", "x", " ", "a", ".", "p", "y">>}

\* ------------------------------------------------------------------ state

VARIABLES
    nodes,            \* HybridGraph.nodes, in dict order
    edges,            \* HybridGraph.edges: edge id -> HybridEdge
    neighbors,        \* HybridGraph.neighbors: id -> the set, as it iterates
    inserted,         \* history: id -> the members of neighbors[id] as first added
    access_history,   \* HybridGraph.access_history
    comod_matrix,     \* HybridGraph.comod_matrix (0 for an absent entry)
    now,              \* datetime.utcnow(), in seconds
    repoFiles,        \* the .py files under the root, as find_python_files lists them
    gitLog,           \* the commits, newest first, each the list of its changed paths
    subjects,         \* the subject lines of the commits of gitLog, newest first
    cgSnap,           \* .mcp/call_graph.json as load_call_graph reads it
    sources,          \* the source files under the root, as find_python_files lists them
    cg,               \* the CallGraph last returned by build_call_graph
    correlations,     \* .mcp/correlations.json as load_correlations reads it
    snapshot,         \* .mcp/hybrid_graph.json
    writable,         \* whether files under .mcp can be written
    guardian,         \* .mcp/.pre_commit_ran and .mcp/hook_guardian.json
    commitLog,        \* the commits of the branch, oldest first, its upstream, the pushed
    waiting,          \* the calls that have read their file and wait for git to answer
    calls,            \* the number of mutating calls made so far
    call,             \* the last call (or commit): its name and arguments
    result,           \* what the last query returned
    cooc,             \* history: of the record_access(x) calls, cooc[x][y].seen counts
                      \* those that found y in the window, cooc[x][y].hit those
                      \* that strengthened the edge (x, y)
    plan              \* the access pattern a session follows (SpecSaturation)

graphVars == <<nodes, edges, neighbors, inserted, access_history, comod_matrix>>

worldVars == <<repoFiles, gitLog, subjects, cgSnap, sources, cg, correlations, snapshot,
               writable, guardian, commitLog, waiting>>

vars == <<nodes, edges, neighbors, inserted, access_history, comod_matrix,
          now, repoFiles, gitLog, subjects, cgSnap, sources, cg, correlations, snapshot,
          writable, guardian, commitLog, waiting, calls, call, result, cooc, plan>>

\* the graph object in memory
Graph ==
    [nodes |-> nodes, edges |-> edges, neighbors |-> neighbors,
     inserted |-> inserted, access_history |-> access_history,
     comod_matrix |-> comod_matrix]

\* the graph object in memory after the step
GraphNext ==
    [nodes |-> nodes', edges |-> edges', neighbors |-> neighbors',
     inserted |-> inserted', access_history |-> access_history',
     comod_matrix |-> comod_matrix']

NoCall ==
    [op |-> "", source |-> <<>>, target |-> <<>>, kind |-> "", weight |-> Zero,
     files |-> <<>>, query |-> <<>>, limit |-> 0, again |-> FALSE,
     raised |-> FALSE, built |-> FALSE]

NoPlan == [mode |-> "", gap |-> 0]

\* the handler changed the graph object in place to h
Mutate(h) ==
    /\ nodes' = h.nodes
    /\ edges' = h.edges
    /\ neighbors' \in Rehash(neighbors, h.neighbors)
    /\ inserted' = h.inserted
    /\ access_history' = h.access_history
    /\ comod_matrix' = h.comod_matrix

\* the graph object is replaced by a newly constructed one, h
Replace(h) ==
    /\ nodes' = h.nodes
    /\ edges' = h.edges
    /\ neighbors' \in Rehash(EmptyGraph.neighbors, h.neighbors)
    /\ inserted' = h.inserted
    /\ access_history' = h.access_history
    /\ comod_matrix' = h.comod_matrix

\* a mutating call c was made; `again` tells that the call before it was the same
Called(c) ==
    /\ calls' = calls + 1
    /\ call' = [c EXCEPT !.again = ([call EXCEPT !.again = FALSE] = c)]
    /\ result' = <<>>

InitGraph ==
    /\ nodes = EmptyGraph.nodes
    /\ edges = EmptyGraph.edges
    /\ neighbors = EmptyGraph.neighbors
    /\ inserted = EmptyGraph.inserted
    /\ access_history = EmptyGraph.access_history
    /\ comod_matrix = EmptyGraph.comod_matrix

InitCalls ==
    /\ now = 0
    /\ calls = 0
    /\ call = NoCall
    /\ result = <<>>
    /\ cooc = [x \in IdPool |-> [y \in IdPool |-> [seen |-> 0, hit |-> 0]]]

InitWorld ==
    /\ repoFiles = <<>>
    /\ gitLog = <<>>
    /\ subjects = <<>>
    /\ cgSnap = NoCallGraph
    /\ sources = <<>>
    /\ cg = EmptyCallGraph
    /\ correlations = NewCorrelationData
    /\ snapshot = NoSnapshot
    /\ writable = TRUE
    /\ guardian = NoGuardianFiles
    /\ commitLog = NoCommits
    /\ waiting = <<>>

Init ==
    /\ InitGraph
    /\ InitCalls
    /\ InitWorld
    /\ plan = NoPlan

\* ------------------------------------------------------------------ actions

\* time passes between two calls
Tick(gap) ==
    /\ now' = now + gap
    /\ UNCHANGED <<graphVars, worldVars, calls, call, result, cooc, plan>>

AddNode(node) ==
    /\ Mutate(AddNodeG(Graph, node))
    /\ Called([NoCall EXCEPT !.op = "add_node", !.source = node.id])
    /\ UNCHANGED <<now, worldVars, cooc, plan>>

AddEdge(source, target, relationship_type, weight) ==
    /\ Mutate(AddEdgeG(Graph, source, target, relationship_type, weight, now))
    /\ Called([NoCall EXCEPT !.op = "add_edge", !.source = source, !.target = target,
                             !.kind = relationship_type, !.weight = weight])
    /\ UNCHANGED <<now, worldVars, cooc, plan>>

\* record_access(node_id), gap seconds after the previous call
RecordAccess(node_id, gap) ==
    /\ now' = now + gap
    /\ Mutate(RecordAccessG(Graph, node_id, now'))
    /\ Called([NoCall EXCEPT !.op = "record_access", !.source = node_id])
    /\ cooc' = [cooc EXCEPT ![node_id] =
                   [y \in IdPool |->
                       [seen |-> IF InSeq(y, RecentOthers(HistoryAfter(Graph, node_id, now'),
                                                          node_id, now' - AccessWindow))
                                 THEN @[y].seen + 1 ELSE @[y].seen,
                        hit |-> IF InSeq(y, AccessTargets(Graph, node_id, now'))
                                THEN @[y].hit + 1 ELSE @[y].hit]]]
    /\ UNCHANGED <<worldVars, plan>>

RecordComodification(files) ==
    /\ Mutate(RecordComodificationG(Graph, files, now))
    /\ Called([NoCall EXCEPT !.op = "record_comodification", !.files = files])
    /\ UNCHANGED <<now, worldVars, cooc, plan>>

GetRelatedNodesCall(query_id, limit) ==
    /\ result' = GetRelatedNodes(Graph, query_id, limit)
    /\ call' = [NoCall EXCEPT !.op = "get_related_nodes", !.source = query_id,
                              !.limit = limit]
    /\ UNCHANGED <<graphVars, worldVars, now, calls, cooc, plan>>

SearchCall(query, limit) ==
    /\ result' = Search(Graph, query, limit)
    /\ call' = [NoCall EXCEPT !.op = "search", !.query = query, !.limit = limit]
    /\ UNCHANGED <<graphVars, worldVars, now, calls, cooc, plan>>

\* graph = HybridGraph.from_dict(graph.to_dict())
RoundTrip ==
    /\ Replace(FromDict(ToDict(Graph)))
    /\ Called([NoCall EXCEPT !.op = "round_trip"])
    /\ UNCHANGED <<now, worldVars, cooc, plan>>

\* graph = build_hybrid_graph(root) starts: it lists the files, reads the
\* call graph snapshot, adds the structural edges and asks for git log
BuildStarted ==
    \E clock \in Clocks(now, StructuralCalls(cgSnap)) :
        /\ Len(waiting) < MaxWaiting
        /\ waiting' = Append(waiting,
                             Process("build",
                                     [graph |-> BuildStart(Root, repoFiles, cgSnap, clock)],
                                     <<>>, 0))
        /\ now' = TimeAfter(now, clock)
        /\ call' = [NoCall EXCEPT !.op = "build_start"]
        /\ UNCHANGED <<guardian, commitLog>>
        /\ UNCHANGED <<graphVars, repoFiles, gitLog, subjects,
                       cgSnap, sources, cg, correlations,
                       snapshot, writable, calls, result, cooc, plan>>

\* graph = build_hybrid_graph(root) once git log has answered: the
\* co-modification edges, the scores, and the graph is assigned
Build(i) ==
    /\ waiting[i].op = "build"
    /\ \E clock \in Clocks(now, ComodCalls(Root, BuildBlocks(gitLog))) :
           /\ Replace(BuildFinish(waiting[i].data.graph, Root, gitLog, clock))
           /\ now' = TimeAfter(now, clock)
    /\ waiting' = RemoveAt(waiting, i)
    /\ Called([NoCall EXCEPT !.op = "build"])
    /\ UNCHANGED <<guardian, commitLog>>
    /\ UNCHANGED <<repoFiles, gitLog, subjects, cgSnap, sources, cg, correlations, snapshot,
                   writable, cooc, plan>>

\* git commit -m subject of the listed paths
Commit(paths, subject) ==
    /\ gitLog' = <<paths>> \o gitLog
    /\ subjects' = <<subject>> \o subjects
    /\ call' = [NoCall EXCEPT !.op = "commit", !.files = paths]
    /\ UNCHANGED <<guardian, commitLog, waiting>>
    /\ UNCHANGED <<graphVars, repoFiles, cgSnap, sources, cg, correlations, snapshot,
                   writable, now, calls, result, cooc, plan>>

\* graph = build_call_graph(root)
BuildCallGraphCall ==
    /\ cg' = BuildCallGraph(Root, sources)
    /\ call' = [NoCall EXCEPT !.op = "build_call_graph"]
    /\ UNCHANGED <<guardian, commitLog, waiting>>
    /\ UNCHANGED <<graphVars, repoFiles, gitLog, subjects,
                   cgSnap, sources, correlations, snapshot,
                   writable, now, calls, result, cooc, plan>>

\* call_graph.main with --build: build_call_graph(root), then save_call_graph,
\* which raises when the file cannot be written and then leaves it as it
\* was or truncated (load_call_graph returns None for a truncated file)
CallGraphBuildCommand ==
    /\ cg' = BuildCallGraph(Root, sources)
    /\ cgSnap' \in (IF writable THEN {SavedCallGraph(cg')} ELSE {cgSnap, NoCallGraph})
    /\ call' = [NoCall EXCEPT !.op = "call_graph_build", !.raised = ~writable]
    /\ UNCHANGED <<guardian, commitLog, waiting>>
    /\ UNCHANGED <<graphVars, repoFiles, gitLog, subjects,
                   sources, correlations, snapshot, writable,
                   now, calls, result, cooc, plan>>

\* the text of the i-th source file is edited
EditSource(i, file) ==
    /\ sources[i].relative = file.relative
    /\ sources[i] # file
    /\ sources' = [sources EXCEPT ![i] = file]
    /\ call' = [NoCall EXCEPT !.op = "edit", !.source = file.relative]
    /\ UNCHANGED <<guardian, commitLog, waiting>>
    /\ UNCHANGED <<graphVars, repoFiles, gitLog, subjects, cgSnap, cg, correlations, snapshot,
                   writable, now, calls, result, cooc, plan>>

\* data = analyze_git_history(root): load_correlations, the log,
\* save_correlations, which raises when the file cannot be written and then
\* leaves it as it was or truncated (load_correlations then starts afresh)
AnalyzeGitHistoryCall(i) ==
    LET saves == GitHistoryOutput(gitLog, subjects) # <<>>
        data == AnalyzeGitHistory(waiting[i].data, gitLog, subjects, now)
    IN  /\ waiting[i].op = "analyze_git_history"
        /\ correlations' \in (IF ~saves THEN {correlations}
                              ELSE IF ~writable THEN {correlations, NewCorrelationData}
                              ELSE {data})
        /\ waiting' = RemoveAt(waiting, i)
        /\ calls' = calls + 1
        /\ call' = [NoCall EXCEPT !.op = "analyze_git_history",
                                  !.raised = saves /\ ~writable]
        /\ result' = IF saves /\ ~writable THEN <<>> ELSE <<data>>
        /\ UNCHANGED <<guardian, commitLog>>
        /\ UNCHANGED <<graphVars, repoFiles, gitLog, subjects,
                       cgSnap, sources, cg, snapshot, writable,
                       now, cooc, plan>>

\* analyze_git_history starts: data = load_correlations(root), and git log
\* is asked for
LoadCorrelationsCall ==
    /\ Len(waiting) < MaxWaiting
    /\ waiting' = Append(waiting, Process("analyze_git_history", correlations, <<>>, 0))
    /\ call' = [NoCall EXCEPT !.op = "load_correlations"]
    /\ UNCHANGED <<guardian, commitLog>>
    /\ UNCHANGED <<graphVars, repoFiles, gitLog, subjects,
                   cgSnap, sources, cg, correlations, snapshot,
                   writable, now, calls, result, cooc, plan>>

\* record_file_access(file_path, root): load_correlations, the counts,
\* save_correlations, which raises when the file cannot be written
RecordFileAccessCall(file_path) ==
    LET data == RecordFileAccess(correlations, file_path, now)
    IN  /\ correlations' \in (IF writable THEN {data} ELSE {correlations, NewCorrelationData})
        /\ calls' = calls + 1
        /\ call' = [NoCall EXCEPT !.op = "record_file_access", !.source = file_path,
                                  !.raised = ~writable]
        /\ UNCHANGED <<guardian, commitLog, waiting>>
        /\ UNCHANGED <<graphVars, repoFiles, gitLog, subjects,
                       cgSnap, sources, cg, snapshot, writable,
                       now, result, cooc, plan>>

\* graph.add_edge(edge) on the call graph in memory
CgAddEdgeCall(edge) ==
    /\ cg' = CgAddEdge(cg, edge)
    /\ calls' = calls + 1
    /\ call' = [NoCall EXCEPT !.op = "cg_add_edge", !.source = edge.source,
                              !.target = edge.target, !.kind = edge.edge_type]
    /\ UNCHANGED <<guardian, commitLog, waiting>>
    /\ UNCHANGED <<graphVars, repoFiles, gitLog, subjects,
                   cgSnap, sources, correlations, snapshot,
                   writable, now, result, cooc, plan>>

\* git commit starts and runs the pre-commit hook, which runs
\* record_pre_commit; flag_path.write_text raises when the flag cannot be
\* written, and the hook script decides whether git then goes on
PreCommitHook ==
    /\ guardian' = IF writable THEN RecordPreCommit(guardian) ELSE guardian
    /\ commitLog' \in {[commitLog EXCEPT !.checked = @ + 1]}
                         \cup (IF writable THEN {} ELSE {commitLog})
    /\ calls' = calls + 1
    /\ call' = [NoCall EXCEPT !.op = "record_pre_commit", !.raised = ~writable]
    /\ UNCHANGED waiting
    /\ UNCHANGED <<graphVars, repoFiles, gitLog, subjects,
                   cgSnap, sources, cg, correlations, snapshot,
                   writable, now, result, cooc, plan>>

\* a git commit whose pre-commit hook has run stops before it writes a commit
AbortedCommit ==
    /\ commitLog.checked > 0
    /\ commitLog' = [commitLog EXCEPT !.checked = @ - 1]
    /\ call' = [NoCall EXCEPT !.op = "abort"]
    /\ UNCHANGED waiting
    /\ UNCHANGED <<graphVars, repoFiles, gitLog, subjects,
                   cgSnap, sources, cg, correlations, snapshot,
                   writable, guardian, now, calls, result, cooc, plan>>

\* git writes a commit: that of a git commit whose pre-commit hook has run
\* (hooks), or that of a git commit --no-verify, which runs no pre-commit hook
GitCommit(commit, hooks) ==
    /\ hooks => commitLog.checked > 0
    /\ commitLog' = [commitLog EXCEPT !.commits = Append(@, [commit EXCEPT !.hooked = hooks]),
                                      !.checked = IF hooks THEN @ - 1 ELSE @,
                                      !.written = @ + 1]
    /\ calls' = IF hooks THEN calls ELSE calls + 1
    /\ call' = [NoCall EXCEPT !.op = "commit", !.source = commit.hash]
    /\ UNCHANGED waiting
    /\ UNCHANGED <<graphVars, repoFiles, gitLog, subjects,
                   cgSnap, sources, cg, correlations, snapshot,
                   writable, guardian, now, result, cooc, plan>>

\* the post-commit hook of a written commit starts record_commit:
\* data = load_guardian_data(root), and git is asked for HEAD
PostCommitHook ==
    /\ commitLog.written > 0
    /\ Len(waiting) < MaxWaiting
    /\ commitLog' = [commitLog EXCEPT !.written = @ - 1]
    /\ waiting' = Append(waiting, Process("record_commit", guardian.data, <<>>, 0))
    /\ call' = [NoCall EXCEPT !.op = "post_commit_hook"]
    /\ UNCHANGED <<graphVars, repoFiles, gitLog, subjects,
                   cgSnap, sources, cg, correlations, snapshot,
                   writable, guardian, now, calls, result, cooc, plan>>

\* commit_hash = get_current_commit(root): git rev-parse HEAD answers, and
\* git log -1 is asked for the message
GetCurrentCommit(i) ==
    /\ waiting[i].op = "record_commit"
    /\ waiting[i].head = <<>>
    /\ waiting' = [waiting EXCEPT ![i].head = GitHead(commitLog)]
    /\ call' = [NoCall EXCEPT !.op = "get_current_commit"]
    /\ UNCHANGED <<graphVars, repoFiles, gitLog, subjects,
                   cgSnap, sources, cg, correlations, snapshot,
                   writable, guardian, commitLog, now, calls, result, cooc, plan>>

\* record_commit once git log -1 has answered: the flag is looked for and
\* removed, the record is put into the data read at the start, and
\* save_guardian_data writes them; flag_path.unlink or the open of
\* save_guardian_data raises when the directory cannot be written
RecordCommitCall(i) ==
    /\ waiting[i].op = "record_commit"
    /\ waiting[i].head # <<>>
    /\ now' = now + 1
    /\ guardian' = IF writable
                   THEN RecordCommit([flag |-> guardian.flag, data |-> waiting[i].data],
                                     waiting[i].head, now')
                   ELSE guardian
    /\ waiting' = RemoveAt(waiting, i)
    /\ call' = [NoCall EXCEPT !.op = "record_commit", !.source = waiting[i].head[1].hash,
                              !.raised = ~writable]
    /\ UNCHANGED <<graphVars, repoFiles, gitLog, subjects,
                   cgSnap, sources, cg, correlations, snapshot,
                   writable, commitLog, calls, result, cooc, plan>>

\* git push: the remote has every commit of the branch; git push -u (track)
\* also configures it as the upstream of the branch
GitPush(track) ==
    /\ commitLog.commits # <<>>
    /\ commitLog.pushed < Len(commitLog.commits) \/ (track /\ ~commitLog.upstream)
    /\ commitLog' = [commitLog EXCEPT !.pushed = Len(commitLog.commits),
                                      !.upstream = @ \/ track]
    /\ call' = [NoCall EXCEPT !.op = "push"]
    /\ UNCHANGED waiting
    /\ UNCHANGED <<graphVars, repoFiles, gitLog, subjects,
                   cgSnap, sources, cg, correlations, snapshot,
                   writable, guardian, now, calls, result, cooc, plan>>

\* verify_all_commits starts: data = load_guardian_data(root), and git log
\* @{u}..HEAD is asked for
LoadGuardianDataCall ==
    /\ Len(waiting) < MaxWaiting
    /\ waiting' = Append(waiting, Process("verify_all_commits", guardian.data, <<>>, 0))
    /\ call' = [NoCall EXCEPT !.op = "load_guardian_data"]
    /\ UNCHANGED <<graphVars, repoFiles, gitLog, subjects,
                   cgSnap, sources, cg, correlations, snapshot,
                   writable, guardian, commitLog, now, calls, result, cooc, plan>>

\* ok = verify_all_commits(root), once git log has answered
VerifyAllCommitsCall(i) ==
    /\ waiting[i].op = "verify_all_commits"
    /\ result' = <<VerifyAllCommits(waiting[i].data, GitUnpushed(commitLog))>>
    /\ waiting' = RemoveAt(waiting, i)
    /\ call' = [NoCall EXCEPT !.op = "verify_all_commits"]
    /\ UNCHANGED <<graphVars, repoFiles, gitLog, subjects,
                   cgSnap, sources, cg, correlations, snapshot,
                   writable, guardian, commitLog, now, calls, cooc, plan>>

\* save_hybrid_graph(graph) of the graph in memory
SaveHybridGraphCall ==
    LET saved == SaveHybridGraph(Graph, snapshot, writable)
    IN  /\ snapshot' \in saved.files
        /\ calls' = calls + 1
        /\ call' = [NoCall EXCEPT !.op = "save_hybrid_graph", !.raised = saved.raised]
        /\ result' = <<>>
        /\ UNCHANGED <<guardian, commitLog, waiting>>
        /\ UNCHANGED <<graphVars, repoFiles, gitLog, subjects,
                       cgSnap, sources, cg, correlations,
                       writable, now, cooc, plan>>

\* graph = load_hybrid_graph(root): the graph in memory is the loaded one,
\* when there is one
LoadHybridGraphCall ==
    LET loaded == LoadHybridGraph(snapshot)
    IN  /\ IF loaded.value # <<>> THEN Replace(loaded.value[1]) ELSE UNCHANGED graphVars
        /\ calls' = calls + 1
        /\ call' = [NoCall EXCEPT !.op = "load_hybrid_graph", !.raised = loaded.raised]
        /\ result' = loaded.value
        /\ UNCHANGED <<worldVars, now, cooc, plan>>

\* hybrid_search(query, root, limit) starts: graph = load_hybrid_graph(root).
\* With a graph it searches and returns. With none build_hybrid_graph lists
\* the files, reads the call graph, adds the structural edges and asks for
\* git log.
HybridSearchCall(query, limit) ==
    LET loaded == LoadHybridGraph(snapshot)
        again == /\ call.op = "hybrid_search"
                 /\ call.query = query /\ call.limit = limit
    IN  IF loaded.value = <<>>
        THEN \E clock \in Clocks(now, StructuralCalls(cgSnap)) :
                 /\ Len(waiting) < MaxWaiting
                 /\ waiting' = Append(waiting,
                                      Process("hybrid_search",
                                              [loaded |-> loaded,
                                               graph |-> BuildStart(Root, repoFiles,
                                                                    cgSnap, clock)],
                                              query, limit))
                 /\ now' = TimeAfter(now, clock)
                 /\ call' = [NoCall EXCEPT !.op = "hybrid_search_load", !.query = query,
                                           !.limit = limit, !.again = again]
                 /\ UNCHANGED <<guardian, commitLog>>
                 /\ UNCHANGED <<graphVars, repoFiles, gitLog, subjects, cgSnap, sources, cg,
                                correlations, snapshot, writable, calls, result, cooc,
                                plan>>
        ELSE \E r \in {HybridSearch(query, limit, loaded, loaded.value[1], snapshot,
                                    writable)} :
                 /\ snapshot' \in r.files
                 /\ calls' = calls + 1
                 /\ call' = [NoCall EXCEPT !.op = "hybrid_search", !.query = query,
                                           !.limit = limit, !.raised = r.raised,
                                           !.built = r.built, !.again = again]
                 /\ result' \in r.values
                 /\ UNCHANGED <<guardian, commitLog, waiting>>
                 /\ UNCHANGED <<graphVars, repoFiles, gitLog, subjects, cgSnap, sources, cg,
                                correlations, writable, now, cooc, plan>>

\* a hybrid_search that found no graph, once git log has answered: the rest
\* of build_hybrid_graph, save_hybrid_graph over the snapshot as it is now,
\* the search and the results
HybridSearchBuilt(i) ==
    /\ waiting[i].op = "hybrid_search"
    /\ \E clock \in Clocks(now, ComodCalls(Root, BuildBlocks(gitLog))) :
       \E graph \in {BuildFinish(waiting[i].data.graph, Root, gitLog, clock)} :
       \E r \in {HybridSearch(waiting[i].query, waiting[i].limit, waiting[i].data.loaded,
                               graph, snapshot, writable)} :
           /\ snapshot' \in r.files
           /\ now' = TimeAfter(now, clock)
           /\ call' = [NoCall EXCEPT !.op = "hybrid_search", !.query = waiting[i].query,
                                     !.limit = waiting[i].limit, !.raised = r.raised,
                                     !.built = r.built]
           /\ result' \in r.values
    /\ waiting' = RemoveAt(waiting, i)
    /\ calls' = calls + 1
    /\ UNCHANGED <<guardian, commitLog>>
    /\ UNCHANGED <<graphVars, repoFiles, gitLog, subjects, cgSnap, sources, cg, correlations,
                   writable, cooc, plan>>

\* hybrid_graph.main with --build starts: build_hybrid_graph(root) lists the
\* files, reads the call graph, adds the structural edges and asks for git log
HybridBuildStarted ==
    \E clock \in Clocks(now, StructuralCalls(cgSnap)) :
        /\ Len(waiting) < MaxWaiting
        /\ waiting' = Append(waiting,
                             Process("hybrid_build",
                                     [graph |-> BuildStart(Root, repoFiles, cgSnap, clock)],
                                     <<>>, 0))
        /\ now' = TimeAfter(now, clock)
        /\ call' = [NoCall EXCEPT !.op = "hybrid_build_start"]
        /\ UNCHANGED <<guardian, commitLog>>
        /\ UNCHANGED <<graphVars, repoFiles, gitLog, subjects,
                       cgSnap, sources, cg, correlations,
                       snapshot, writable, calls, result, cooc, plan>>

\* hybrid_graph.main with --build once git log has answered: the rest of
\* build_hybrid_graph, then save_hybrid_graph over the snapshot as it is now
HybridBuildCommand(i) ==
    /\ waiting[i].op = "hybrid_build"
    /\ \E clock \in Clocks(now, ComodCalls(Root, BuildBlocks(gitLog))) :
       \E graph \in {BuildFinish(waiting[i].data.graph, Root, gitLog, clock)} :
           LET saves == {SaveHybridGraph(h, snapshot, writable) : h \in BuiltOrders(graph)}
           IN  /\ snapshot' \in UNION {saved.files : saved \in saves}
               /\ now' = TimeAfter(now, clock)
               /\ call' = [NoCall EXCEPT !.op = "hybrid_build",
                                         !.raised = \E saved \in saves : saved.raised,
                                         !.built = TRUE]
    /\ waiting' = RemoveAt(waiting, i)
    /\ calls' = calls + 1
    /\ result' = <<>>
    /\ UNCHANGED <<guardian, commitLog>>
    /\ UNCHANGED <<graphVars, repoFiles, gitLog, subjects, cgSnap, sources, cg, correlations,
                   writable, cooc, plan>>

\* the snapshot is deleted, or overwritten with text that is not a graph
DamageSnapshot(file) ==
    /\ file # snapshot
    /\ snapshot' = file
    /\ call' = [NoCall EXCEPT !.op = "damage"]
    /\ UNCHANGED <<guardian, commitLog, waiting>>
    /\ UNCHANGED <<graphVars, repoFiles, gitLog, subjects, cgSnap, sources, cg, correlations,
                   writable, now, calls, result, cooc, plan>>

\* .mcp becomes read-only, or writable again
SetWritable(w) ==
    /\ w # writable
    /\ writable' = w
    /\ call' = [NoCall EXCEPT !.op = "chmod"]
    /\ UNCHANGED <<guardian, commitLog, waiting>>
    /\ UNCHANGED <<graphVars, repoFiles, gitLog, subjects, cgSnap, sources, cg, correlations,
                   snapshot, now, calls, result, cooc, plan>>

\* ------------------------------------------------------------------ Spec: the edge API

MaxCalls == 2

MaxClock == 1

\* the weights passed to add_edge: 0.5 and 2.0
EdgeWeights == {PointFive, FromInt(2)}

EdgeEnds == {<<IdA, IdB>>, <<IdB, IdA>>}

Next ==
    \/ /\ now < MaxClock
       /\ Tick(1)
    \/ /\ calls < MaxCalls
       /\ \E p \in EdgeEnds, k \in Kinds, w \in EdgeWeights : AddEdge(p[1], p[2], k, w)
    \/ /\ calls < MaxCalls
       /\ \E id \in {IdA, IdB} : RecordAccess(id, 0)
    \/ /\ calls < MaxCalls
       /\ \E files \in {<<IdA, IdB>>, <<IdB, IdA, IdB>>} : RecordComodification(files)

Spec == Init /\ [][Next]_vars

\* ------------------------------------------------------------------ SpecIdem: repeated add_edge

MaxIdemCalls == 3

MaxIdemClock == 1

NextIdem ==
    \/ /\ now < MaxIdemClock
       /\ Tick(1)
    \/ /\ calls < MaxIdemCalls
       /\ \E p \in EdgeEnds, k \in {"calls", "inherits", "similar"}, w \in EdgeWeights :
              AddEdge(p[1], p[2], k, w)

SpecIdem == Init /\ [][NextIdem]_vars

\* ------------------------------------------------------------------ SpecComod: record_comodification

MaxComodCalls == 2

\* the file lists passed to record_comodification: lists of distinct ids in
\* several orders, and lists that repeat an id
ComodLists ==
    {<<>>, <<IdA>>, <<IdA, IdB>>, <<IdB, IdA>>, <<IdA, IdAC>>, <<IdAC, IdB>>,
     <<IdA, IdB, IdAC>>, <<IdAC, IdB, IdA>>, <<IdA, IdA>>, <<IdA, IdB, IdA>>}

NextComod ==
    /\ calls < MaxComodCalls
    /\ \E files \in ComodLists : RecordComodification(files)

SpecComod == Init /\ [][NextComod]_vars

\* ------------------------------------------------------------------ SpecSaturation: access sessions

MaxAccesses == 22

\* the seconds between two accesses of a session
AccessGaps == {0, 10, 200}

\* repeat: IdB once, then IdA again and again; alternate: IdA, IdB, IdA, ...;
\* crowded: IdB once, IdAC five times, then IdA again and again
Plans == {[mode |-> m, gap |-> g] : m \in {"repeat", "alternate", "crowded"}, g \in AccessGaps}

PlannedId ==
    CASE plan.mode = "repeat" -> (IF calls = 0 THEN IdB ELSE IdA)
      [] plan.mode = "alternate" -> (IF calls % 2 = 0 THEN IdA ELSE IdB)
      [] OTHER -> (IF calls = 0 THEN IdB ELSE IF calls <= AccessFanout THEN IdAC ELSE IdA)

InitSaturation ==
    /\ InitGraph
    /\ InitCalls
    /\ InitWorld
    /\ plan \in Plans

NextSaturation ==
    /\ calls < MaxAccesses
    /\ RecordAccess(PlannedId, plan.gap)

SpecSaturation == InitSaturation /\ [][NextSaturation]_vars

\* ------------------------------------------------------------------ SpecQuery: queries and the round trip

MaxQueryCalls == 3

MaxLimit == 2

QueryLimits == 0..MaxLimit

\* the node build_hybrid_graph makes for a file
FileNode(id) == NewNode(id, "file", id, PathName(id))

\* nodes passed to add_node: file nodes, a file node with scores, and a
\* function node whose name is not part of its path
QueryNodes ==
    {FileNode(IdA), FileNode(IdB),
     [FileNode(IdAC) EXCEPT !.temporal_score = PointFive,
                             !.structural_score = PointOne],
     NewNode(IdAC, "function", IdA, <<"D">>)}

\* edges passed to add_edge; the last two give combined weights one rounding
\* step apart: 0.2 * 0.3 = 0.06 and (3 * 0.1) * 0.2 = 0.06000000000000001
QueryEdges ==
    {<<IdA, IdB, "calls", One>>, <<IdA, IdAC, "calls", One>>,
     <<IdB, IdA, "calls", One>>, <<IdA, IdB, "similar", PointFive>>,
     <<IdA, IdB, "calls", PointTwo>>, <<IdA, IdAC, "accessed_together", FromInt(3)>>}

Queries == {<<"a">>, <<"B">>, <<"d">>, <<"p", "y">>, <<"z">>}

NextQuery ==
    \/ /\ calls < MaxQueryCalls
       /\ \E node \in QueryNodes : AddNode(node)
    \/ /\ calls < MaxQueryCalls
       /\ \E e \in QueryEdges : AddEdge(e[1], e[2], e[3], e[4])
    \/ /\ calls < MaxQueryCalls
       /\ RecordComodification(<<IdA, IdB, IdAC>>)
    \/ /\ calls < MaxQueryCalls
       /\ \E id \in {IdA, IdB} : RecordAccess(id, 0)
    \/ /\ calls < MaxQueryCalls
       /\ RoundTrip
    \/ \E id \in IdPool, limit \in QueryLimits : GetRelatedNodesCall(id, limit)

SpecQuery == Init /\ [][NextQuery]_vars

\* ------------------------------------------------------------------ SpecSearch: add_node, add_edge and search

MaxSearchCalls == 3

\* nodes passed to add_node before a search; the last two have scores one
\* rounding step apart: 0.25 * 0.1 = 0.025 and
\* 0.1 * 0.2 + 0.05 * 0.1 = 0.025000000000000005
SearchNodes ==
    QueryNodes \cup
    {[FileNode(IdA) EXCEPT !.temporal_score = Float(25, 100)],
     [FileNode(IdB) EXCEPT !.structural_score = PointOne,
                           !.comod_score = PointZeroFive]}

NextSearch ==
    \/ /\ calls < MaxSearchCalls
       /\ \E node \in SearchNodes : AddNode(node)
    \/ /\ calls < MaxSearchCalls
       /\ AddEdge(IdA, IdB, "calls", One)
    \/ \E query \in Queries, limit \in QueryLimits : SearchCall(query, limit)

SpecSearch == Init /\ [][NextSearch]_vars

\* ------------------------------------------------------------------ SpecBuild: commits and builds

MaxCommits == 7

MaxBuildCalls == 2

\* what find_python_files finds under the root
Listings == {<<FileA, FileB, FileAC>>, <<FileAC, FileA>>}

CgEdge(source, target, edge_type) ==
    [source |-> source, target |-> target, edge_type |-> edge_type]

\* a snapshot: symbols of a.py and B.py (qualified name -> GraphNode.file), a
\* call across the two files, a call inside a.py, an import of an unknown
\* symbol and an instantiation across the two files
SomeCallGraph ==
    [exists |-> TRUE,
     nodes |-> ("a.f" :> IdA) @@ ("a.h" :> IdA) @@ ("B.g" :> IdB),
     edges |-> <<CgEdge("a.f", "B.g", "calls"), CgEdge("a.f", "a.h", "calls"),
                 CgEdge("a.f", "os.path", "imports"),
                 CgEdge("B.g", "a.f", "instantiates")>>]

Snapshots == {NoCallGraph, SomeCallGraph}

\* a snapshot with one call across the two files
CallSnapshot ==
    [exists |-> TRUE,
     nodes |-> ("a.f" :> IdA) @@ ("B.g" :> IdB),
     edges |-> <<CgEdge("a.f", "B.g", "calls")>>]

\* the builds that wait for git at one time
MaxBuilding == 1

\* how the repository is committed to: always the same two files, always the
\* same three files, or by turns two files with a text file and one file
\* with a text file
CommitPlans == {[mode |-> m, gap |-> 0] : m \in {"pair", "triple", "mixed"}}

PlannedCommit ==
    CASE plan.mode = "pair" -> <<FileA, FileB>>
      [] plan.mode = "triple" -> <<FileA, FileB, FileAC>>
      [] OTHER -> IF Len(gitLog) % 2 = 0 THEN <<FileA, FileTxt, FileB>>
                  ELSE <<FileTxt, FileAC>>

\* nodes added to the graph in memory by hand
BuildNodes == {FileNode(IdA), [FileNode(IdAC) EXCEPT !.temporal_score = PointFive]}

InitBuild ==
    /\ InitGraph
    /\ InitCalls
    /\ repoFiles \in Listings
    /\ gitLog = <<>>
    /\ subjects = <<>>
    /\ cgSnap \in Snapshots
    /\ sources = <<>>
    /\ cg = EmptyCallGraph
    /\ correlations = NewCorrelationData
    /\ snapshot = NoSnapshot
    /\ writable = TRUE
    /\ guardian = NoGuardianFiles
    /\ commitLog = NoCommits
    /\ waiting = <<>>
    /\ plan \in CommitPlans

NextBuild ==
    \/ /\ Len(gitLog) < MaxCommits
       /\ Commit(PlannedCommit, PlainSubject)
    \/ /\ calls < MaxBuildCalls
       /\ \E node \in BuildNodes : AddNode(node)
    \/ /\ calls + Len(waiting) < MaxBuildCalls
       /\ Len(waiting) < MaxBuilding
       /\ BuildStarted
    \/ \E i \in 1..Len(waiting) : Build(i)

SpecBuild == InitBuild /\ [][NextBuild]_vars

\* ------------------------------------------------------------------ SpecExtract: sources, call graph, build

MaxExtractCalls == 1

NameF == <<"f">>

NameG == <<"g">>

NameH == <<"h">>

NameK == <<"K">>

NameN == <<"n">>

ModuleB == <<"B">>

\* a.py:  1 from B import g
\*        2 def f():
\*        3     g()
TreeCaller ==
    <<ImportFrom(ModuleB, NameG, <<>>, 1),
      FunctionDef(NameF, <<>>, <<Call(Name(NameG), <<>>, 3)>>, <<>>, <<>>, 2)>>

\* a.py:  1 def f():
\*        2     g()
\*        3 from B import g
TreeLateImport ==
    <<FunctionDef(NameF, <<>>, <<Call(Name(NameG), <<>>, 2)>>, <<>>, <<>>, 1),
      ImportFrom(ModuleB, NameG, <<>>, 3)>>

\* a.py:  1 import B as m
\*        2 class K(m.K):
\*        3     def f(self):
\*        4         m.g(h())
\*        5 def h():
\*        6     def n():
\*        7         g()
\*        8     n()
\*        9 def k():
\*       10     def n():
\*       11         pass
\*       12 @h()
\*       13 def f():
\*       14     pass
\*       15 g()
TreeNested ==
    <<Import(ModuleB, <<"m">>, 1),
      ClassDef(NameK, <<Attribute(Name(<<"m">>), NameK)>>,
               <<FunctionDef(NameF, <<>>,
                             <<Call(Attribute(Name(<<"m">>), NameG),
                                    <<Call(Name(NameH), <<>>, 4)>>, 4)>>,
                             <<>>, <<>>, 3)>>,
               <<>>, 2),
      FunctionDef(NameH, <<>>,
                  <<FunctionDef(NameN, <<>>, <<Call(Name(NameG), <<>>, 7)>>, <<>>, <<>>, 6),
                    Call(Name(NameN), <<>>, 8)>>, <<>>, <<>>, 5),
      FunctionDef(<<"k">>, <<>>, <<FunctionDef(NameN, <<>>, <<>>, <<>>, <<>>, 10)>>,
                  <<>>, <<>>, 9),
      FunctionDef(NameF, <<>>, <<>>, <<Call(Name(NameH), <<>>, 12)>>, <<>>, 13),
      Call(Name(NameG), <<>>, 15)>>

\* B.py:  1 def g():
\*        2     pass
TreeCallee == <<FunctionDef(NameG, <<>>, <<>>, <<>>, <<>>, 1)>>

\* a/c.py:  1 import B
\*          2 def c():
\*          3     B.g()
\*          4 @x()
\*          5 def e(y=x()) -> x():
\*          6     from B import g as x
\*          7 def d():
\*          8     x()
TreeModuleCall ==
    <<Import(ModuleB, <<>>, 1),
      FunctionDef(<<"c">>, <<>>, <<Call(Attribute(Name(ModuleB), NameG), <<>>, 3)>>,
                  <<>>, <<>>, 2),
      FunctionDef(<<"e">>, <<Call(Name(<<"x">>), <<>>, 5)>>,
                  <<ImportFrom(ModuleB, NameG, <<"x">>, 6)>>,
                  <<Call(Name(<<"x">>), <<>>, 4)>>,
                  <<Call(Name(<<"x">>), <<>>, 5)>>, 5),
      FunctionDef(<<"d">>, <<>>, <<Call(Name(<<"x">>), <<>>, 8)>>, <<>>, <<>>, 7)>>

\* the texts each file can have; a text that does not parse has no tree
Texts ==
    {SourceFile(FileA, TRUE, TreeCaller), SourceFile(FileA, TRUE, TreeLateImport),
     SourceFile(FileA, TRUE, TreeNested),
     SourceFile(FileB, TRUE, TreeCallee), SourceFile(FileB, FALSE, <<>>),
     SourceFile(FileB, TRUE, <<>>),
     SourceFile(FileAC, TRUE, TreeModuleCall)}

InitExtract ==
    /\ InitGraph
    /\ InitCalls
    /\ repoFiles = <<FileA, FileB, FileAC>>
    /\ gitLog = <<>>
    /\ subjects = <<>>
    /\ cgSnap = NoCallGraph
    /\ sources \in {<<x, y, z>> : x \in {t \in Texts : t.relative = FileA},
                                   y \in {t \in Texts : t.relative = FileB},
                                   z \in {t \in Texts : t.relative = FileAC}}
    /\ cg = EmptyCallGraph
    /\ correlations = NewCorrelationData
    /\ snapshot = NoSnapshot
    /\ writable = TRUE
    /\ guardian = NoGuardianFiles
    /\ commitLog = NoCommits
    /\ waiting = <<>>
    /\ plan = NoPlan

NextExtract ==
    \/ \E i \in 1..Len(sources), file \in Texts : EditSource(i, file)
    \/ BuildCallGraphCall
    \/ CallGraphBuildCommand
    \/ /\ calls + Len(waiting) < MaxExtractCalls
       /\ BuildStarted
    \/ \E i \in 1..Len(waiting) : Build(i)

SpecExtract == InitExtract /\ [][NextExtract]_vars

\* ------------------------------------------------------------------ SpecHistory: a long session

MaxHistoryAccesses == 1003

InitHistory ==
    /\ InitGraph
    /\ InitCalls
    /\ InitWorld
    /\ plan \in {[mode |-> "crowded", gap |-> 0], [mode |-> "alternate", gap |-> 200]}

NextHistory ==
    /\ calls < MaxHistoryAccesses
    /\ RecordAccess(PlannedId, plan.gap)

SpecHistory == InitHistory /\ [][NextHistory]_vars

\* ------------------------------------------------------------------ SpecCorr: commits and analyze_git_history

MaxCorrCommits == 5

MaxAnalyses == 2

\* as CommitPlans, and a repository where every commit changes one source
\* file and a text file
CorrPlans == CommitPlans \cup {[mode |-> "single", gap |-> 0]}

PlannedCorrCommit == IF plan.mode = "single" THEN <<FileA, FileTxt>> ELSE PlannedCommit

InitCorr ==
    /\ InitGraph
    /\ InitCalls
    /\ InitWorld
    /\ plan \in CorrPlans

NextCorr ==
    \/ /\ Len(gitLog) < MaxCorrCommits
       /\ \E subject \in Subjects : Commit(PlannedCorrCommit, subject)
    \/ /\ calls + Len(waiting) < MaxAnalyses
       /\ LoadCorrelationsCall
    \/ \E i \in 1..Len(waiting) : AnalyzeGitHistoryCall(i)
    \/ /\ calls < MaxAnalyses
       /\ \E file_path \in {IdA, IdB} : RecordFileAccessCall(file_path)

SpecCorr == InitCorr /\ [][NextCorr]_vars

\* ------------------------------------------------------------------ SpecCallGraph: CallGraph.add_edge

MaxCgEdges == 4

CgNamePool == {<<"f">>, <<"g">>}

CgEdgePool ==
    {GraphEdge(p[1], p[2], p[3], FileA, 1) :
        p \in CgNamePool \X CgNamePool \X {"calls", "imports"}}

InitCallGraph ==
    /\ InitGraph
    /\ InitCalls
    /\ repoFiles = <<>>
    /\ gitLog = <<>>
    /\ subjects = <<>>
    /\ cgSnap = NoCallGraph
    /\ sources = <<>>
    /\ cg = EmptyCallGraph
    /\ correlations = NewCorrelationData
    /\ snapshot = NoSnapshot
    /\ writable = TRUE
    /\ guardian = NoGuardianFiles
    /\ commitLog = NoCommits
    /\ waiting = <<>>
    /\ plan = NoPlan

NextCallGraph ==
    /\ calls < MaxCgEdges
    /\ \E edge \in CgEdgePool : CgAddEdgeCall(edge)

SpecCallGraph == InitCallGraph /\ [][NextCallGraph]_vars

\* ------------------------------------------------------------------ SpecPersist: the snapshot and hybrid_search

MaxPersistCalls == 4

\* a node whose id is the path relative to the root
RelativeNode == NewNode(FileA, "file", FileA, FileA)

InitPersist ==
    /\ InitGraph
    /\ InitCalls
    /\ repoFiles = <<FileA, FileB, FileAC>>
    /\ gitLog = <<<<FileA, FileB, FileAC>>>>
    /\ subjects = <<PlainSubject>>
    /\ cgSnap = CallSnapshot
    /\ sources = <<>>
    /\ cg = EmptyCallGraph
    /\ correlations = NewCorrelationData
    /\ snapshot = NoSnapshot
    /\ writable = TRUE
    /\ guardian = NoGuardianFiles
    /\ commitLog = NoCommits
    /\ waiting = <<>>
    /\ plan = NoPlan

NextPersist ==
    \/ /\ calls + Len(waiting) < MaxPersistCalls
       /\ \E node \in {FileNode(IdA), RelativeNode} : AddNode(node)
    \/ /\ calls + Len(waiting) < MaxPersistCalls
       /\ AddEdge(IdA, IdB, "similar", PointFive)
    \/ /\ calls + Len(waiting) < MaxPersistCalls
       /\ SaveHybridGraphCall
    \/ /\ calls + Len(waiting) < MaxPersistCalls
       /\ LoadHybridGraphCall
    \/ /\ calls + Len(waiting) < MaxPersistCalls
       /\ Len(waiting) < MaxBuilding
       /\ \E query \in {<<"a">>, <<"B">>} : HybridSearchCall(query, MaxLimit)
    \/ /\ calls + Len(waiting) < MaxPersistCalls
       /\ Len(waiting) < MaxBuilding
       /\ HybridBuildStarted
    \/ \E i \in 1..Len(waiting) : HybridSearchBuilt(i)
    \/ \E i \in 1..Len(waiting) : HybridBuildCommand(i)
    \/ \E file \in {NoSnapshot, CorruptSnapshot} : DamageSnapshot(file)
    \/ \E w \in BOOLEAN : SetWritable(w)

SpecPersist == InitPersist /\ [][NextPersist]_vars

\* ------------------------------------------------------------------ SpecReload: a graph saved and loaded

MaxReloadCalls == 5

NextReload ==
    \/ /\ calls < MaxReloadCalls
       /\ AddNode(FileNode(IdA))
    \/ /\ calls < MaxReloadCalls
       /\ \E node_id \in {IdA, IdB} : RecordAccess(node_id, 0)
    \/ /\ calls < MaxReloadCalls
       /\ RecordComodification(<<IdA, IdB>>)
    \/ /\ calls < MaxReloadCalls
       /\ SaveHybridGraphCall
    \/ /\ calls < MaxReloadCalls
       /\ LoadHybridGraphCall

SpecReload == InitPersist /\ [][NextReload]_vars

\* ------------------------------------------------------------------ SpecGuardian: commits and the hook guardian

MaxGuardCalls == 2

\* the i-th commit: a hash of 13 characters that starts with i, and a message
CommitNo(i) ==
    [hash |-> <<SubSeq(<<"1", "2", "3", "4", "5", "6", "7", "8", "9">>, i, i)[1]>>
                  \o [j \in 1..HashLength |-> "0"],
     message |-> <<"m">>, hooked |-> FALSE]

NextGuardian ==
    \/ /\ calls < MaxGuardCalls
       /\ PreCommitHook
    \/ AbortedCommit
    \/ \E hooks \in BOOLEAN :
           /\ hooks \/ calls < MaxGuardCalls
           /\ GitCommit(CommitNo(Len(commitLog.commits) + 1), hooks)
    \/ PostCommitHook
    \/ \E i \in 1..Len(waiting) : GetCurrentCommit(i)
    \/ \E i \in 1..Len(waiting) : RecordCommitCall(i)
    \/ \E track \in BOOLEAN : GitPush(track)
    \/ LoadGuardianDataCall
    \/ \E i \in 1..Len(waiting) : VerifyAllCommitsCall(i)
    \/ \E w \in BOOLEAN : SetWritable(w)

SpecGuardian == InitCallGraph /\ [][NextGuardian]_vars

\* ------------------------------------------------------------------ SpecOps: every operation of the graph

MaxOpsCalls == 3

\* the seconds between two accesses: inside and outside the 5-minute window
OpsGaps == {0, 400}

NextOps ==
    \/ /\ calls < MaxOpsCalls
       /\ \E node \in {FileNode(IdA), FileNode(IdB)} : AddNode(node)
    \/ /\ calls < MaxOpsCalls
       /\ \E e \in {<<IdA, IdB, "calls", One>>, <<IdAC, IdA, "similar", PointFive>>} :
              AddEdge(e[1], e[2], e[3], e[4])
    \/ /\ calls < MaxOpsCalls
       /\ \E id \in IdPool, gap \in OpsGaps : RecordAccess(id, gap)
    \/ /\ calls < MaxOpsCalls
       /\ \E files \in {<<IdA, IdB>>, <<IdB, IdA, IdB>>} : RecordComodification(files)
    \/ /\ calls < MaxOpsCalls
       /\ RoundTrip
    \/ \E id \in IdPool : GetRelatedNodesCall(id, MaxLimit)
    \/ \E query \in {<<"a">>, <<"z">>} : SearchCall(query, MaxLimit)

SpecOps == Init /\ [][NextOps]_vars

\* ------------------------------------------------------------------ claims

Distinct(s) == \A i, j \in 1..Len(s) : i # j => s[i] # s[j]

\* C1: for a list of pairwise distinct ids, record_comodification raises
\* comod_matrix[x][y] by exactly 1 for every ordered pair (x, y) of distinct
\* ids of the list and leaves every other entry as it was.
C1_ComodIncrements ==
    [][(/\ calls' = calls + 1
        /\ call'.op = "record_comodification"
        /\ Distinct(call'.files))
       => \A x, y \in IdPool :
              comod_matrix'[x][y] =
                  comod_matrix[x][y]
                  + (IF x # y /\ InSeq(x, call'.files) /\ InSeq(y, call'.files)
                     THEN 1 ELSE 0)]_vars

\* C1 witness: record_comodification([a, b, c]) ran on a matrix that already
\* counted (a, b) once
C1_Witness ==
    /\ call.op = "record_comodification"
    /\ call.files = <<IdA, IdB, IdAC>>
    /\ comod_matrix[IdA][IdB] = 2
    /\ comod_matrix[IdB][IdA] = 2
    /\ comod_matrix[IdAC][IdA] = 1
    /\ comod_matrix[IdA][IdA] = 0

\* C2: after any sequence of add_edge, record_access and record_comodification
\* calls, whatever weight is passed to add_edge, each of the four weights of
\* every edge is at most 1.0.
C2_WeightsAtMostOne ==
    \A k \in DOMAIN edges :
        /\ FLeq(edges[k].structural_weight, One)
        /\ FLeq(edges[k].temporal_weight, One)
        /\ FLeq(edges[k].comod_weight, One)
        /\ FLeq(edges[k].semantic_weight, One)

\* an edge without its last_updated stamp
Unstamped(e) == [e EXCEPT !.last_updated = <<>>]

\* C3: add_edge is idempotent on structural edges: a second add_edge(x, y,
\* kind, w) with kind in {calls, imports, inherits}, right after the first,
\* leaves every edge's four weights and relationship_types and the neighbors
\* index as the first call left them.
C3_AddEdgeIdempotent ==
    [][(/\ calls' = calls + 1
        /\ call'.op = "add_edge"
        /\ call'.again
        /\ call'.kind \in StructuralKinds)
       => (/\ DOMAIN edges' = DOMAIN edges
           /\ \A k \in DOMAIN edges : Unstamped(edges'[k]) = Unstamped(edges[k])
           /\ neighbors' = neighbors)]_vars

\* C3 witness: add_edge(x, y, 'calls', 0.5) was just repeated on an edge that
\* held structural_weight 2.0 before, at a later time than the first call
C3_Witness ==
    /\ call.op = "add_edge"
    /\ call.again
    /\ call.kind = "calls"
    /\ call.weight = PointFive
    /\ edges[EdgeId(call.source, call.target)].structural_weight = FromInt(2)
    /\ edges[EdgeId(call.source, call.target)].last_updated = <<1>>

\* the temporal_weight of the edge keyed (x, y), 0 when there is no such edge
TemporalWeight(x, y) ==
    IF EdgeId(x, y) \in DOMAIN edges THEN edges[EdgeId(x, y)].temporal_weight ELSE Zero

\* C4 as stated: from no edge between a and b, once 20 record_access calls
\* (of a or of b) have each seen the other id in the window, the
\* accessed_together edge between a and b has temporal_weight exactly 1.0,
\* and the weight is never above 1.0.
C4_TwentyCooccurrences ==
    /\ (cooc[IdA][IdB].seen + cooc[IdB][IdA].seen = 20)
           => (TemporalWeight(IdA, IdB) = One \/ TemporalWeight(IdB, IdA) = One)
    /\ \A k \in DOMAIN edges : FLeq(edges[k].temporal_weight, One)

\* C4 amended: edges are keyed by the ordered pair; from no edge (x, y), once
\* 20 record_access(x) calls have each strengthened the edge (x, y), that is
\* found y among the last 5 other ids of the window, the edge (x, y) has
\* temporal_weight exactly 1.0, and no temporal_weight is ever above 1.0.
C4_SaturationPerDirection ==
    /\ \A x, y \in IdPool :
           cooc[x][y].hit >= 20 => TemporalWeight(x, y) = One
    /\ \A k \in DOMAIN edges : FLeq(edges[k].temporal_weight, One)

\* C4 witness: the 20th record_access(a) that strengthened (a, b), one
\* observation each time, has run
C4_Witness ==
    /\ plan.mode = "repeat"
    /\ plan.gap = 10
    /\ cooc[IdA][IdB].hit = 20
    /\ calls = 21
    /\ TemporalWeight(IdA, IdB) = One

\* C5: for a graph with at least one node and one edge, from_dict(to_dict(g))
\* answers every search and every get_related_nodes exactly as g does (same
\* members, same scores, same order).
C5_RoundTripSameAnswers ==
    [][(/\ calls' = calls + 1
        /\ call'.op = "round_trip"
        /\ Len(nodes) >= 1
        /\ DOMAIN edges # {})
       => \A limit \in QueryLimits :
              /\ \A id \in IdPool :
                     GetRelatedNodes(GraphNext, id, limit) = GetRelatedNodes(Graph, id, limit)
              /\ \A query \in Queries :
                     Search(GraphNext, query, limit) = Search(Graph, query, limit)]_vars

\* the position of x in the sequence s
IndexIn(s, x) == CHOOSE i \in 1..Len(s) : s[i] = x

\* the neighbors of id that have an edge with id
EdgedNeighbors(id) ==
    {n \in Range(neighbors[id]) :
        EdgeId(id, n) \in DOMAIN edges \/ EdgeId(n, id) \in DOMAIN edges}

\* x ranks before y among the neighbors of id: a higher score, or the same
\* score and an earlier first insertion
RelatedBefore(id, x, y) ==
    LET sx == GetCombinedWeight(edges[RelatedEdgeId(Graph, id, x)])
        sy == GetCombinedWeight(edges[RelatedEdgeId(Graph, id, y)])
    IN  \/ FLess(sy, sx)
        \/ sx = sy /\ IndexIn(inserted[id], x) < IndexIn(inserted[id], y)

\* C6: get_related_nodes(id, limit) for an id in nodes returns at most limit
\* pairs, one per neighbor with an edge, scored 0.3*structural + 0.2*temporal
\* + 0.3*comod + 0.2*semantic, by descending score, equal scores in the order
\* of first insertion as neighbors of id.
C6_RelatedRanking ==
    (call.op = "get_related_nodes" /\ call.source \in NodeIds(Graph))
    => LET id == call.source
           keys == {result[i].key : i \in 1..Len(result)}
       IN  /\ Len(result) = Min(call.limit, Cardinality(EdgedNeighbors(id)))
           /\ keys \subseteq EdgedNeighbors(id)
           /\ Cardinality(keys) = Len(result)
           /\ \A i \in 1..Len(result) :
                  result[i].score =
                      GetCombinedWeight(edges[RelatedEdgeId(Graph, id, result[i].key)])
           /\ \A i, j \in 1..Len(result) :
                  i < j => RelatedBefore(id, result[i].key, result[j].key)
           /\ \A i \in 1..Len(result) : \A n \in EdgedNeighbors(id) \ keys :
                  RelatedBefore(id, result[i].key, n)

\* the score C7 gives a node for a query
C7Score(node, query) ==
    FAdd(FAdd(FAdd(FAdd(IF Contains(LowerStr(query), LowerStr(node.name))
                        THEN PointFive ELSE Zero,
                        IF Contains(LowerStr(query), LowerStr(node.path))
                        THEN PointThree ELSE Zero),
                   FMul(PointTwo, node.structural_score)),
              FMul(PointOne, node.temporal_score)),
         FMul(PointOne, node.comod_score))

\* node i ranks before node j for the query: a higher score, or the same
\* score and an earlier insertion
SearchBefore(query, i, j) ==
    \/ FLess(C7Score(nodes[j], query), C7Score(nodes[i], query))
    \/ C7Score(nodes[i], query) = C7Score(nodes[j], query) /\ i < j

\* what search returned, as positions in nodes
ResultPositions == [i \in 1..Len(result) |-> IndexIn(nodes, result[i].key)]

C7_ResultRanked ==
    (call.op = "search")
    => LET positive == {i \in 1..Len(nodes) : FLess(Zero, C7Score(nodes[i], call.query))}
           pos == ResultPositions
           got == Range(pos)
       IN  /\ Len(result) = Min(call.limit, Cardinality(positive))
           /\ \A i \in 1..Len(result) : result[i].key \in Range(nodes)
           /\ got \subseteq positive
           /\ \A i \in 1..Len(result) :
                  result[i].score = C7Score(result[i].key, call.query)
           /\ \A i, j \in 1..Len(result) :
                  i < j => SearchBefore(call.query, pos[i], pos[j])
           /\ \A i \in 1..Len(result) : \A k \in positive \ got :
                  SearchBefore(call.query, pos[i], k)

\* C7: search(query, limit) returns the first limit elements of the nodes of
\* score > 0 (0.5 for the query in the name, 0.3 for the query in the path,
\* case-insensitive, plus 0.2*structural + 0.1*temporal + 0.1*comod), by
\* descending score, equal scores in node insertion order; and search leaves
\* the graph as it was.
C7_SearchRanking ==
    /\ []C7_ResultRanked
    /\ [][(call'.op = "search") => UNCHANGED graphVars]_vars

\* C7 witness: a search with limit 1 that had two nodes of the same highest
\* score to choose from, after a node of a lower positive score, and returned
\* the earlier of the two
C7_Witness ==
    /\ call.op = "search"
    /\ call.limit = 1
    /\ Len(nodes) = 3
    /\ FLess(Zero, C7Score(nodes[1], call.query))
    /\ FLess(C7Score(nodes[1], call.query), C7Score(nodes[2], call.query))
    /\ C7Score(nodes[3], call.query) = C7Score(nodes[2], call.query)
    /\ result = <<[key |-> nodes[2], score |-> C7Score(nodes[2], call.query)]>>

\* every node of the graph in memory has its three scores at 0
ZeroScores ==
    \A i \in 1..Len(nodes) :
        /\ nodes[i].structural_score = Zero
        /\ nodes[i].temporal_score = Zero
        /\ nodes[i].comod_score = Zero

NameMatch(node, query) == Contains(LowerStr(query), LowerStr(node.name))

PathMatch(node, query) == Contains(LowerStr(query), LowerStr(node.path))

\* after a build that left every score at 0: a name match is returned with
\* score nameScore, a match of the path alone with 0.3, nothing else is returned
BuildSearchScores(nameScore) ==
    (call.op = "build" /\ ZeroScores)
    => \A query \in Queries : \A i \in 1..Len(nodes) :
           LET found == Range(Search(Graph, query, Len(nodes)))
               n == nodes[i]
           IN  /\ NameMatch(n, query) => [key |-> n, score |-> nameScore] \in found
               /\ (PathMatch(n, query) /\ ~NameMatch(n, query))
                      => [key |-> n, score |-> PointThree] \in found
               /\ (~PathMatch(n, query) /\ ~NameMatch(n, query))
                      => \A r \in found : r.key # n

\* C8: in a graph produced by build_hybrid_graph with every score at 0, a
\* query matching a node's file name returns the node with score exactly 0.5,
\* a query matching only its path returns it with score exactly 0.3, and a
\* node matching neither is absent.
C8_NameMatchHalf == BuildSearchScores(PointFive)

\* C8 as the code has it: the file name is the last component of the path, so
\* a query matching the file name matches the path too and the node is
\* returned with score exactly 0.8; path alone 0.3; neither, absent.
C8_NameMatchAlsoPath == BuildSearchScores(PointEight)

\* C8 witness: a build left three nodes with every score at 0, and one query
\* matches the name of one, only the path of another, and nothing of the third
C8_Witness ==
    /\ call.op = "build"
    /\ ZeroScores
    /\ Len(nodes) = 3
    /\ \E query \in Queries : \E i, j, k \in 1..Len(nodes) :
           /\ NameMatch(nodes[i], query)
           /\ PathMatch(nodes[j], query) /\ ~NameMatch(nodes[j], query)
           /\ ~PathMatch(nodes[k], query) /\ ~NameMatch(nodes[k], query)
           /\ Len(Search(Graph, query, Len(nodes))) = 2

\* the commits of the log that changed the file f
CommitsOf(f) == {i \in 1..Len(gitLog) : InSeq(f, gitLog[i])}

\* the commits of the log that changed f and other files
MultiFileCommitsOf(f) == {i \in CommitsOf(f) : Len(gitLog[i]) > 1}

\* the .py files changed by commit i
PyFilesOf(i) == {f \in Range(gitLog[i]) : EndsWith(f, DotPy)}

\* f1 and f2 were changed together, and no other .py file with them, in n
\* commits, and neither was changed in another multi-file commit
TogetherOnly(f1, f2, n) ==
    LET both == CommitsOf(f1) \cap CommitsOf(f2)
    IN  /\ Cardinality(both) = n
        /\ \A i \in both : PyFilesOf(i) = {f1, f2}
        /\ MultiFileCommitsOf(f1) = both
        /\ MultiFileCommitsOf(f2) = both

\* 2^-52, the distance from 1.0 to the next float
Epsilon == <<0, 1, 0, 0, 0, 0>>

\* x and y are the same number up to the rounding of one float operation
Near(x, y) == FLeq(x, FAdd(y, Epsilon)) /\ FLeq(y, FAdd(x, Epsilon))

\* C9: after build_hybrid_graph every file node n has structural_score =
\* min(1, 0.1 * |neighbors[n]|) and comod_score = min(1, 0.05 * the sum of
\* comod_matrix[n]), both in [0, 1]; two files changed together in 6 commits
\* and in no other multi-file commit each have comod_score 0.3, as the float
\* product 0.05 * 6.
C9_BuildScores ==
    (call.op = "build")
    => /\ \A i \in 1..Len(nodes) :
              LET n == nodes[i]
                  total == SumOver(comod_matrix[n.id], IdPool)
              IN  /\ n.structural_score
                         = FMin(One, FMul(PointOne,
                                          FromInt(Cardinality(Range(neighbors[n.id])))))
                  /\ n.comod_score = FMin(One, FMul(PointZeroFive, FromInt(total)))
                  /\ FLeq(Zero, n.structural_score) /\ FLeq(n.structural_score, One)
                  /\ FLeq(Zero, n.comod_score) /\ FLeq(n.comod_score, One)
       /\ \A f1, f2 \in Range(repoFiles) :
              (f1 # f2 /\ TogetherOnly(f1, f2, 6))
              => \A f \in {f1, f2} :
                     LET score == NodeOf(Graph, JoinPath(Root, f)).comod_score
                     IN  /\ score = FMul(PointZeroFive, FromInt(6))
                         /\ Near(score, PointThree)

\* C10: a build does not reset temporal_score: a node that is in the graph
\* before build_hybrid_graph runs and in the graph it returns has the same
\* temporal_score in both.
C10_BuildKeepsTemporalScore ==
    [][(call'.op = "build" /\ calls' = calls + 1)
       => \A id \in NodeIds(Graph) \cap NodeIds(GraphNext) :
              NodeOf(GraphNext, id).temporal_score = NodeOf(Graph, id).temporal_score]_vars

\* the text of the source file at the path relative
SourceAt(relative) ==
    sources[CHOOSE i \in 1..Len(sources) : sources[i].relative = relative]

\* the tree has, at top level, `from module import name`
HasImportFrom(tree, module, name) ==
    \E i \in 1..Len(tree) :
        /\ tree[i].kind = "ImportFrom"
        /\ tree[i].module = module /\ tree[i].name = name /\ tree[i].asname = <<>>

\* the tree has a top-level function whose body calls name()
HasCallIn(tree, name) ==
    \E i \in 1..Len(tree) :
        /\ tree[i].kind = "FunctionDef"
        /\ \E j \in 1..Len(tree[i].body) :
               tree[i].body[j].kind = "Call" /\ tree[i].body[j].func = Name(name)

\* the tree defines the top-level function name
DefinesFunction(tree, name) ==
    \E i \in 1..Len(tree) : tree[i].kind = "FunctionDef" /\ tree[i].name = name

\* a function of a.py calls g, imported from B, and B.py defines g
CallsAcrossFiles ==
    /\ SourceAt(FileA).parses /\ SourceAt(FileB).parses
    /\ HasImportFrom(SourceAt(FileA).tree, ModuleB, NameG)
    /\ HasCallIn(SourceAt(FileA).tree, NameG)
    /\ DefinesFunction(SourceAt(FileB).tree, NameG)

\* C11: when a function in a.py calls a function defined in B.py, after one
\* build get_related_nodes(a.py) contains B.py and the edge between them has
\* 'calls' among its relationship_types.
C11_CallMakesRelated ==
    (call.op = "build" /\ CallsAcrossFiles)
    => /\ \E r \in Range(GetRelatedNodes(Graph, IdA, Len(nodes))) : r.key = IdB
       /\ EdgeId(IdA, IdB) \in DOMAIN edges
       /\ InSeq("calls", edges[EdgeId(IdA, IdB)].relationship_types)

\* the edges of a graph that carry a structural kind, with those kinds
StructuralEdges(g) ==
    {t \in (DOMAIN g.edges) \X StructuralKinds :
        InSeq(t[2], g.edges[t[1]].relationship_types)}

\* C12: build reruns the Structural Extractor: the structural edges of the
\* graph build_hybrid_graph returns are those derived from the source files
\* as they are at build time, whatever call graph snapshot is on disk.
C12_BuildRerunsExtractor ==
    (call.op = "build")
    => LET fresh == SavedCallGraph(BuildCallGraph(Root, sources))
           clock == [i \in 1..(StructuralCalls(fresh)
                                  + ComodCalls(Root, BuildBlocks(gitLog))) |-> now]
       IN  StructuralEdges(Graph)
               = StructuralEdges(BuildHybridGraph(Root, repoFiles, fresh, gitLog, clock))

\* the ids that edges or neighbors mention and nodes does not hold
DanglingIds ==
    ({edges[k].source : k \in DOMAIN edges} \cup {edges[k].target : k \in DOMAIN edges}
        \cup DOMAIN neighbors \cup UNION {Range(neighbors[k]) : k \in DOMAIN neighbors})
    \ NodeIds(Graph)

\* C13: search and get_related_nodes answer in every state, dangling ids or
\* not: get_related_nodes of an id that is not a node returns the empty list,
\* what it returns for a node are neighbors of that node, what search returns
\* are nodes, and neither changes nodes, edges, neighbors, access_history or
\* comod_matrix.
C13_QueriesTolerateDangling ==
    [][(call'.op \in {"get_related_nodes", "search"})
       => /\ UNCHANGED graphVars
          /\ (call'.op = "get_related_nodes" /\ call'.source \notin NodeIds(Graph))
                 => result' = <<>>
          /\ (call'.op = "get_related_nodes" /\ call'.source \in NodeIds(Graph))
                 => \A i \in 1..Len(result') :
                        InSeq(result'[i].key, neighbors[call'.source])
          /\ (call'.op = "search")
                 => \A i \in 1..Len(result') : result'[i].key \in Range(nodes)]_vars

\* get_related_nodes was asked about an id that edges and neighbors mention
\* and nodes does not hold, and returned the empty list
C13_Witness ==
    /\ call.op = "get_related_nodes"
    /\ call.source \in DanglingIds
    /\ call.source \in DOMAIN neighbors /\ neighbors[call.source] # <<>>
    /\ \E k \in DOMAIN edges : edges[k].source = call.source
    /\ result = <<>>

\* the id the n-th record_access of the session is about (n = 1, 2, ...)
AccessedAt(n) ==
    CASE plan.mode = "repeat" -> (IF n = 1 THEN IdB ELSE IdA)
      [] plan.mode = "alternate" -> (IF n % 2 = 1 THEN IdA ELSE IdB)
      [] OTHER -> (IF n = 1 THEN IdB ELSE IF n <= AccessFanout + 1 THEN IdAC ELSE IdA)

\* C14: access_history never holds more than 1000 entries: after n accesses
\* it holds exactly the last min(n, 1000) of them, in the order they were
\* made; the oldest entries are the ones evicted.
C14_HistoryKeepsNewest ==
    /\ Len(access_history) = Min(calls, HistoryCap)
    /\ \A i \in 1..Len(access_history) :
           LET n == calls - Len(access_history) + i
           IN  access_history[i] = [id |-> AccessedAt(n), ts |-> n * plan.gap]

\* more than 1000 accesses were made: the first ones are gone
C14_Witness ==
    /\ calls > HistoryCap + 1
    /\ Len(access_history) = HistoryCap
    /\ plan.mode = "alternate"
    /\ access_history[1] = [id |-> IdA, ts |-> 3 * plan.gap]
    /\ access_history[HistoryCap] = [id |-> IdB, ts |-> calls * plan.gap]

RECURSIVE DistinctNewest(_, _)
\* the (at most n) distinct ids of a list of accesses, oldest first, that were
\* accessed most recently
DistinctNewest(ids, n) ==
    IF ids = <<>> \/ n = 0 THEN {}
    ELSE LET last == ids[Len(ids)]
             Other(id) == id # last
         IN  {last} \cup DistinctNewest(SelectSeq(ids, Other), n - 1)

\* C15: one record_access(x) strengthens the accessed_together edge from x to
\* each of the (at most 5) most recently accessed distinct ids other than x
\* inside the 5-minute window exactly once, and leaves every other edge as
\* it was.
C15_AccessEdgesOncePerId ==
    [][(call'.op = "record_access" /\ calls' = calls + 1)
       => LET x == call'.source
              others == DistinctNewest(
                            RecentOthers(access_history, x, now' - AccessWindow),
                            AccessFanout)
              Old(k) == IF k \in DOMAIN edges THEN edges[k].temporal_weight ELSE Zero
          IN  /\ \A y \in others :
                     /\ EdgeId(x, y) \in DOMAIN edges'
                     /\ InSeq("accessed_together", edges'[EdgeId(x, y)].relationship_types)
                     /\ edges'[EdgeId(x, y)].temporal_weight
                            = FMin(One, FAdd(Old(EdgeId(x, y)), FMul(PointFive, PointOne)))
              /\ \A k \in DOMAIN edges' :
                     (k \notin {EdgeId(x, y) : y \in others})
                         => (k \in DOMAIN edges /\ edges'[k] = edges[k])]_vars

\* C16: comod_matrix is symmetric after every operation, record_comodification
\* with a list that repeats an id included, and no operation of the graph
\* lowers an entry of it.
C16_ComodSymmetricMonotone ==
    [][\A x, y \in IdPool :
           /\ comod_matrix'[x][y] = comod_matrix'[y][x]
           /\ comod_matrix'[x][y] >= comod_matrix[x][y]]_vars

\* record_comodification of a list that names B.py twice raised both entries
\* of the pair (a.py, B.py) twice, and the entry of (B.py, B.py) twice
C16_Witness ==
    /\ call.op = "record_comodification"
    /\ call.files = <<IdB, IdA, IdB>>
    /\ comod_matrix[IdA][IdB] >= 2 /\ comod_matrix[IdB][IdA] = comod_matrix[IdA][IdB]
    /\ comod_matrix[IdB][IdB] >= 2
    /\ \E i \in 1..Len(nodes) : nodes[i].id = IdA

RECURSIVE CountDefs(_)
\* the number of function definitions in a list of statements, those nested
\* in functions and classes included
CountDefs(stmts) ==
    IF stmts = <<>> THEN 0
    ELSE LET node == Head(stmts)
             here == CASE node.kind = "FunctionDef" -> 1 + CountDefs(node.body)
                       [] node.kind = "ClassDef" -> CountDefs(node.body)
                       [] OTHER -> 0
         IN  here + CountDefs(Tail(stmts))

\* the function and method nodes the call graph holds for a file
FunctionNodes(graph, path) ==
    {i \in 1..Len(graph.nodes) :
        /\ graph.nodes[i].file = path
        /\ graph.nodes[i].node_type \in {"function", "method"}}

\* C17: after build_call_graph the call graph holds, for every parsed file,
\* as many function/method nodes as the file has function definitions,
\* nested ones and same-named ones in different functions included.
C17_OneNodePerDefinition ==
    (call.op = "build_call_graph")
    => \A i \in 1..Len(sources) :
           sources[i].parses
           => Cardinality(FunctionNodes(cg, JoinPath(Root, sources[i].relative)))
                  = CountDefs(sources[i].tree)

RECURSIVE Walk(_, _, _, _)
\* the import statements and the calls written in a list of nodes, in the
\* order the visitor reaches them: a file from top to bottom, of a function
\* definition the argument list, the body, the decorators, the return
\* annotation, of a class the bases, the body, the decorators, of a call
\* the call, then its function and arguments. Each comes with the class and
\* the function around it (<<>>: none); what is written in the header of a
\* definition (decorators, argument list, annotation, bases) counts as
\* written in that definition when decoratorsInside, in what surrounds it
\* otherwise
Walk(stmts, cls, fn, decoratorsInside) ==
    IF stmts = <<>> THEN <<>>
    ELSE LET node == Head(stmts)
             Met(kind) == <<[kind |-> kind, node |-> node, cls |-> cls, fn |-> fn]>>
             fnHeader == IF decoratorsInside THEN node.name ELSE fn
             clsHeader == IF decoratorsInside THEN node.name ELSE cls
             here ==
                 CASE node.kind = "Call" ->
                          Met("call") \o Walk(<<node.func>> \o node.args, cls, fn,
                                              decoratorsInside)
                   [] node.kind = "Attribute" ->
                          Walk(<<node.value>>, cls, fn, decoratorsInside)
                   [] node.kind = "Import" -> Met("import")
                   [] node.kind = "ImportFrom" ->
                          IF node.module # <<>> THEN Met("import") ELSE <<>>
                   [] node.kind = "FunctionDef" ->
                          Walk(node.args, cls, fnHeader, decoratorsInside)
                              \o Walk(node.body, cls, node.name, decoratorsInside)
                              \o Walk(node.decorator_list \o node.returns, cls, fnHeader,
                                      decoratorsInside)
                   [] node.kind = "ClassDef" ->
                          Walk(node.bases, clsHeader, fn, decoratorsInside)
                              \o Walk(node.body, node.name, fn, decoratorsInside)
                              \o Walk(node.decorator_list, clsHeader, fn,
                                      decoratorsInside)
                   [] OTHER -> <<>>
         IN  here \o Walk(Tail(stmts), cls, fn, decoratorsInside)

RECURSIVE ImportsIn(_)
\* the import statements of a list of statements that bind a name
ImportsIn(stmts) ==
    IF stmts = <<>> THEN {}
    ELSE LET node == Head(stmts)
             here == CASE node.kind = "Import" -> {node}
                       [] node.kind = "ImportFrom" /\ node.module # <<>> -> {node}
                       [] node.kind \in {"FunctionDef", "ClassDef"} -> ImportsIn(node.body)
                       [] OTHER -> {}
         IN  here \cup ImportsIn(Tail(stmts))

\* the name an import statement binds, and what the import table holds for it
BoundName(imp) == IF imp.asname # <<>> THEN imp.asname ELSE imp.name

ImportedAs(imp) ==
    IF imp.kind = "Import" THEN imp.name ELSE imp.module \o Dot \o imp.name

\* what the name f written at a line stands for when imports count by their
\* place in the file: the last import above the line that binds f, or f itself
Resolved(tree, f, line) ==
    LET before == {imp \in ImportsIn(tree) : BoundName(imp) = f /\ imp.line < line}
    IN  IF before = {} THEN f
        ELSE ImportedAs(CHOOSE imp \in before : \A o \in before : o.line <= imp.line)

\* what the name of the i-th entry of a walk, a call, stands for when the
\* visitor reaches it: what the last import reached before it that binds
\* the name bound it to, or the name itself
ResolvedAt(walk, i) ==
    LET f == walk[i].node.func.id
        before == {j \in 1..(i - 1) :
                      walk[j].kind = "import" /\ BoundName(walk[j].node) = f}
    IN  IF before = {} THEN f
        ELSE ImportedAs(walk[CHOOSE j \in before : \A o \in before : o <= j].node)

\* the 'calls' edges of the call graph that come from a file, as
\* (source, target, line)
CallEdges(graph, path) ==
    {<<graph.edges[i].source, graph.edges[i].target, graph.edges[i].line>> :
        i \in {j \in 1..Len(graph.edges) :
                  graph.edges[j].edge_type = "calls" /\ graph.edges[j].file = path}}

\* the calls f() of a simple name written in a file, with the edge each is to
\* produce: from module.function, or module.class.function when withClass
\* and the call is inside a class, to what f stands for by the place of the
\* imports in the file (byLine) or in the visitor's walk
NamedCalls(file, withClass, decoratorsInside, byLine) ==
    LET m == ModuleName(file.relative)
        walk == Walk(file.tree, <<>>, <<>>, decoratorsInside)
        Scope(site) ==
            m \o (IF withClass /\ site.cls # <<>> THEN Dot \o site.cls ELSE <<>>)
              \o Dot \o site.fn
    IN  {[inside |-> walk[i].fn # <<>>,
          line |-> walk[i].node.line,
          edge |-> <<Scope(walk[i]),
                     IF byLine
                     THEN Resolved(file.tree, walk[i].node.func.id, walk[i].node.line)
                     ELSE ResolvedAt(walk, i),
                     walk[i].node.line>>] :
            i \in {j \in 1..Len(walk) :
                      walk[j].kind = "call" /\ walk[j].node.func.kind = "Name"}}

\* every call of a simple name inside a function has its edge and no edge
\* of the same target from another source; a call outside every function
\* has none
CallsHaveEdges(withClass, decoratorsInside, byLine) ==
    \A i \in 1..Len(sources) :
        sources[i].parses
        => LET actual == CallEdges(cg, JoinPath(Root, sources[i].relative))
           IN  \A c \in NamedCalls(sources[i], withClass, decoratorsInside, byLine) :
                   IF c.inside
                   THEN /\ c.edge \in actual
                        /\ \A e \in actual :
                               (e[2] = c.edge[2] /\ e[3] = c.line) => e = c.edge
                   ELSE \A e \in actual : e[3] # c.line

\* C18 as stated: the edge of a call f() inside function g of module m goes
\* from m.g to f or to what an import earlier in the file bound f to, and a
\* call outside every function, a decorator of a top-level function
\* included, has no edge.
C18_CallEdgeFromFunction ==
    (call.op = "build_call_graph") => CallsHaveEdges(FALSE, FALSE, TRUE)

\* C18, amended: the edge of a call f() goes from the scope of the innermost
\* function around it, module.g or module.K.g when the call is inside a class
\* K, to f or to what the last import the visitor reached before the call
\* bound f to (it reaches the argument list and the body of a function
\* before its decorators and its return annotation); a call in a decorator,
\* an argument default or an annotation of g counts as inside g; a call
\* outside every function has no edge.
C18_CallEdgeFromScope ==
    (call.op = "build_call_graph") => CallsHaveEdges(TRUE, TRUE, FALSE)

\* the call graph of the three files: h() in method f of class K has its edge
\* from a.K.f, the decorator call from a.f, g() in the nested n from a.n to
\* the unbound g; in a/c.py the default x() of e goes to the unbound x, the
\* decorator and the return annotation of e to B.g, which the import in the
\* body of e below them bound x to, as does x() in d; g() at module level has
\* no edge
C18_Witness ==
    /\ call.op = "build_call_graph"
    /\ sources[1].tree = TreeNested /\ sources[2].parses
    /\ CallEdges(cg, IdA) =
           {<<ModuleName(FileA) \o Dot \o NameK \o Dot \o NameF, ModuleB \o Dot \o NameG, 4>>,
            <<ModuleName(FileA) \o Dot \o NameK \o Dot \o NameF, NameH, 4>>,
            <<ModuleName(FileA) \o Dot \o NameN, NameG, 7>>,
            <<ModuleName(FileA) \o Dot \o NameH, NameN, 8>>,
            <<ModuleName(FileA) \o Dot \o NameF, NameH, 12>>}
    /\ CallEdges(cg, IdAC) =
           {<<ModuleName(FileAC) \o Dot \o <<"c">>, ModuleB \o Dot \o NameG, 3>>,
            <<ModuleName(FileAC) \o Dot \o <<"e">>, <<"x">>, 5>>,
            <<ModuleName(FileAC) \o Dot \o <<"e">>, ModuleB \o Dot \o NameG, 4>>,
            <<ModuleName(FileAC) \o Dot \o <<"e">>, ModuleB \o Dot \o NameG, 5>>,
            <<ModuleName(FileAC) \o Dot \o <<"d">>, ModuleB \o Dot \o NameG, 8>>}

\* the files of the scan that parse
Parsed(files) ==
    LET Ok(file) == file.parses
    IN  SelectSeq(files, Ok)

\* C19: a file with a syntax error gives the call graph no node, its module
\* node included, and no edge; the other files of the scan are processed:
\* the graph is the one built from the file list without the bad file.
C19_BadFileContributesNothing ==
    (call.op = "build_call_graph")
    => /\ cg = BuildCallGraph(Root, Parsed(sources))
       /\ \A i \in 1..Len(sources) :
              ~sources[i].parses
              => LET path == JoinPath(Root, sources[i].relative)
                 IN  /\ \A n \in 1..Len(cg.nodes) : cg.nodes[n].file # path
                     /\ \A e \in 1..Len(cg.edges) : cg.edges[e].file # path
                     /\ ModuleName(sources[i].relative) \notin CgNames(cg)

\* B.py, second of the three files, has a syntax error: the call graph holds
\* the modules and functions of a.py and a/c.py, and neither B nor B.g
C19_Witness ==
    /\ call.op = "build_call_graph"
    /\ ~sources[2].parses
    /\ sources[1].tree = TreeCaller
    /\ CgNames(cg) = {ModuleName(FileA), ModuleName(FileA) \o Dot \o NameF,
                      ModuleName(FileAC), ModuleName(FileAC) \o Dot \o <<"c">>,
                      ModuleName(FileAC) \o Dot \o <<"e">>,
                      ModuleName(FileAC) \o Dot \o <<"d">>}
    /\ \E e \in 1..Len(cg.edges) : cg.edges[e].file = IdAC /\ cg.edges[e].edge_type = "calls"

\* the commits analyze_git_history reads that list both files
CommitsListingBoth(f1, f2) ==
    {i \in 1..Min(Len(gitLog), GitHistoryLimit) : {f1, f2} \subseteq Range(gitLog[i])}

\* C20: analyze_git_history raises comod_counts[f1][f2] and
\* comod_counts[f2][f1] of the data it loaded, for every two distinct source
\* files f1 and f2, by the number of commits of the log that list both, and
\* raises no other entry: a commit that lists fewer than two source files
\* adds nothing. The data it returns hold these counts, and with a log that
\* is not empty they are the data it stores.
C20_AnalyzeCountsPairs ==
    [][(call'.op = "analyze_git_history" /\ calls' = calls + 1)
       => \A i \in 1..Len(waiting) :
              (waiting[i].op = "analyze_git_history" /\ waiting' = RemoveAt(waiting, i))
              => /\ Len(result') = 1
                 /\ gitLog # <<>> => correlations' = result'[1]
                 /\ \A f1, f2 \in RelFiles \cup {FileTxt} :
                        ComodCount(result'[1].comod_counts, f1, f2)
                            = ComodCount(waiting[i].data.comod_counts, f1, f2)
                              + (IF f1 # f2 /\ EndsWith(f1, DotPy) /\ EndsWith(f2, DotPy)
                                 THEN Cardinality(CommitsListingBoth(f1, f2))
                                 ELSE 0)]_vars

\* C21: load_hybrid_graph never raises: with no snapshot file it returns
\* None, with a snapshot that cannot be decoded it returns None too, with a
\* readable one the graph stored in it, and the stored file is left as it was.
C21_LoadNeverRaises ==
    [][(call'.op = "load_hybrid_graph" /\ calls' = calls + 1)
       => /\ ~call'.raised
          /\ snapshot' = snapshot
          /\ (snapshot.kind \in {"missing", "corrupt"}) => result' = <<>>
          /\ (snapshot.kind = "ok") => result' = <<FromDict(snapshot.data)>>]_vars

\* a load of a snapshot that was overwritten with text that is not a graph,
\* after a graph with a node had been saved
C21_Witness ==
    /\ call.op = "load_hybrid_graph"
    /\ snapshot = CorruptSnapshot
    /\ result = <<>>
    /\ ~call.raised
    /\ DOMAIN nodes # {}

\* C22: a snapshot that cannot be written is not fatal: hybrid_search, the
\* build command and analyze_git_history complete and return their result
\* when the write of the snapshot fails.
C22_SaveFailureNotFatal ==
    [][(call'.op \in {"hybrid_search", "hybrid_build"} /\ calls' = calls + 1)
       => ~call'.raised]_vars

\* the names index[key] lists, none when the key is absent
IndexList(index, key) == IF key \in DOMAIN index THEN index[key] ELSE <<>>

\* the edge list replayed in order into an empty graph
RECURSIVE ReplayEdges(_, _)
ReplayEdges(graph, list) ==
    IF list = <<>> THEN graph
    ELSE ReplayEdges(CgAddEdge(graph, Head(list)), Tail(list))

\* C23: in a CallGraph reached from empty through add_edge calls, s is in
\* callers[t] exactly when the edge list has an edge (s, t), t is in
\* callees[s] exactly when it has an edge (s, t), no list names anything
\* twice, and both indexes equal those of the edge list replayed in order
\* into an empty graph.
C23_IndexesMatchEdges ==
    LET HasEdge(s, t) ==
            \E i \in 1..Len(cg.edges) : cg.edges[i].source = s /\ cg.edges[i].target = t
        NoRepeat(list) ==
            \A i, j \in 1..Len(list) : (list[i] = list[j]) => (i = j)
        replayed == ReplayEdges(EmptyCallGraph, cg.edges)
    IN  /\ \A s, t \in CgNamePool :
               /\ InSeq(s, IndexList(cg.callers, t)) <=> HasEdge(s, t)
               /\ InSeq(t, IndexList(cg.callees, s)) <=> HasEdge(s, t)
        /\ \A key \in DOMAIN cg.callers : NoRepeat(cg.callers[key])
        /\ \A key \in DOMAIN cg.callees : NoRepeat(cg.callees[key])
        /\ cg.callers = replayed.callers
        /\ cg.callees = replayed.callees

\* f -> g was added twice (as a call and as an import) and g -> g once: the
\* edge list has three edges, callers[g] lists f and g once each
C23_Witness ==
    /\ Len(cg.edges) = 3
    /\ cg.edges[1] = GraphEdge(<<"f">>, <<"g">>, "calls", FileA, 1)
    /\ cg.edges[2] = GraphEdge(<<"f">>, <<"g">>, "imports", FileA, 1)
    /\ cg.edges[3] = GraphEdge(<<"g">>, <<"g">>, "calls", FileA, 1)
    /\ cg.callers = (<<"g">> :> <<(<<"f">>), (<<"g">>)>>)
    /\ cg.callees = (<<"f">> :> <<(<<"g">>)>>) @@ (<<"g">> :> <<(<<"g">>)>>)

\* C24: in every state of a HybridGraph reached through add_edge,
\* record_access and record_comodification, neighbors is symmetric and
\* agrees with edges: t is in neighbors[s] exactly when s is in neighbors[t],
\* and exactly when an edge keyed (s, t) or (t, s) exists.
C24_NeighborsSymmetric ==
    \A s, t \in IdPool :
        /\ InSeq(t, neighbors[s]) <=> InSeq(s, neighbors[t])
        /\ InSeq(t, neighbors[s])
               <=> (EdgeId(s, t) \in DOMAIN edges \/ EdgeId(t, s) \in DOMAIN edges)

\* record_access made the one edge B.py|a.py: each of the two ids is a
\* neighbor of the other although no edge a.py|B.py exists
C24_Witness ==
    /\ call.op = "record_access"
    /\ DOMAIN edges = {EdgeId(IdB, IdA)}
    /\ InSeq(IdB, neighbors[IdA])
    /\ InSeq(IdA, neighbors[IdB])

\* the builder after it visited the whole tree of a file
BuilderAfter(file) ==
    VisitAll(NewBuilder(EmptyCallGraph, JoinPath(Root, file.relative),
                        ModuleName(file.relative)), file.tree)

RECURSIVE CallsAfterDefinition(_, _, _, _)
\* the calls of a simple name written as statements of a function body after
\* a function or class defined in that same body (seen), each with the class
\* and the function whose body it is
CallsAfterDefinition(stmts, cls, fn, seen) ==
    IF stmts = <<>> THEN {}
    ELSE LET node == Head(stmts)
             here ==
                 CASE node.kind = "Call" ->
                          IF seen /\ fn # <<>> /\ node.func.kind = "Name"
                          THEN {[node |-> node, cls |-> cls, fn |-> fn]} ELSE {}
                   [] node.kind = "FunctionDef" ->
                          CallsAfterDefinition(node.body, cls, node.name, FALSE)
                   [] node.kind = "ClassDef" ->
                          CallsAfterDefinition(node.body, node.name, fn, FALSE)
                   [] OTHER -> {}
         IN  here \cup CallsAfterDefinition(Tail(stmts), cls, fn,
                                            seen \/ node.kind \in {"FunctionDef", "ClassDef"})

\* the top-level functions of a tree written after a class
FunctionsAfterClass(tree) ==
    {tree[j].name : j \in {k \in 1..Len(tree) :
                              /\ tree[k].kind = "FunctionDef"
                              /\ \E c \in 1..(k - 1) : tree[c].kind = "ClassDef"}}

\* C25: scopes are pushed and popped like a stack: a call that follows a
\* nested definition inside g is attributed to g again, a function written
\* after a class is no method of it, and after a whole file was visited
\* current_class and current_function are both unset.
C25_ScopesRestored ==
    (call.op = "build_call_graph")
    => \A i \in 1..Len(sources) :
           sources[i].parses
           => LET file == sources[i]
                  m == ModuleName(file.relative)
                  path == JoinPath(Root, file.relative)
                  Scope(site) == m \o (IF site.cls # <<>> THEN Dot \o site.cls ELSE <<>>)
                                   \o Dot \o site.fn
              IN  /\ BuilderAfter(file).current_class = <<>>
                  /\ BuilderAfter(file).current_function = <<>>
                  /\ \A site \in CallsAfterDefinition(file.tree, <<>>, <<>>, FALSE) :
                         /\ \E e \in CallEdges(cg, path) :
                                e[1] = Scope(site) /\ e[3] = site.node.line
                         /\ \A e \in CallEdges(cg, path) :
                                (e[3] = site.node.line) => e[1] = Scope(site)
                  /\ \A name \in FunctionsAfterClass(file.tree) :
                         /\ (m \o Dot \o name) \in CgNames(cg)
                         /\ cg.nodes[CgIndex(cg, m \o Dot \o name)].node_type = "function"

\* a.py defines n inside h and calls n() after it on line 8: the edge of that
\* call comes from a.h, the edge of g() inside n from a.n, and h, written
\* after class K, is a function
C25_Witness ==
    /\ call.op = "build_call_graph"
    /\ sources[1].tree = TreeNested
    /\ <<ModuleName(FileA) \o Dot \o NameH, NameN, 8>> \in CallEdges(cg, IdA)
    /\ <<ModuleName(FileA) \o Dot \o NameN, NameG, 7>> \in CallEdges(cg, IdA)
    /\ cg.nodes[CgIndex(cg, ModuleName(FileA) \o Dot \o NameH)].node_type = "function"
    /\ BuilderAfter(sources[1]).current_function = <<>>

\* the graphs build_hybrid_graph can return once git has answered, from the
\* graph g it made of the files and the call graph snapshot
BuiltFrom(g) ==
    {BuildFinish(g, Root, gitLog, clock) :
        clock \in Clocks(now, ComodCalls(Root, BuildBlocks(gitLog)))}

\* C26: a hybrid_search that finds the snapshot missing or undecodable
\* builds the graph, saves it and answers from it, so that a snapshot exists
\* after the call; a hybrid_search of the same query that follows it answers
\* from that snapshot without building and returns the same results.
C26_MissingSnapshotRebuilt ==
    [][/\ (call'.op \in {"hybrid_search", "hybrid_search_load"}
               /\ Len(waiting') >= Len(waiting))
           => /\ (snapshot.kind \in {"missing", "corrupt"})
                     <=> (call'.op = "hybrid_search_load" /\ Len(waiting') > Len(waiting))
              /\ (call'.again /\ call.built)
                     => /\ call'.op = "hybrid_search"
                        /\ ~call'.built /\ ~call'.raised
                        /\ snapshot' = snapshot
                        /\ result' = result
       /\ (call'.op = "hybrid_search" /\ Len(waiting') < Len(waiting))
           => /\ call'.built /\ ~call'.raised
              /\ LoadHybridGraph(snapshot').value # <<>>
              /\ \E i \in 1..Len(waiting) :
                     /\ waiting[i].op = "hybrid_search"
                     /\ waiting' = RemoveAt(waiting, i)
                     /\ \E graph \in BuiltFrom(waiting[i].data.graph) :
                            /\ snapshot' \in {SnapshotOf(h) : h \in BuiltOrders(graph)}
                            /\ result' \in FormatResults(
                                               graph,
                                               Search(graph, call'.query, call'.limit))]_vars

\* two neighbor indexes hold the same sets
SameNeighbors(n1, n2) ==
    /\ DOMAIN n1 = DOMAIN n2
    /\ \A k \in DOMAIN n1 : Range(n1[k]) = Range(n2[k])

\* C27: a graph that is saved and loaded keeps its nodes, edges, neighbor
\* index and co-modification matrix and comes back with an empty
\* access_history, so that the first record_access after a load creates no
\* accessed_together edge.
C27_ReloadDropsHistory ==
    [][/\ (call'.op = "save_hybrid_graph" /\ calls' = calls + 1 /\ ~call'.raised)
           => LET h == LoadHybridGraph(snapshot').value[1]
              IN  /\ h.nodes = nodes
                  /\ h.edges = edges
                  /\ SameNeighbors(h.neighbors, neighbors)
                  /\ h.comod_matrix = comod_matrix
                  /\ h.access_history = <<>>
       /\ (call'.op = "load_hybrid_graph" /\ calls' = calls + 1 /\ result' # <<>>)
           => /\ nodes' = result'[1].nodes
              /\ edges' = result'[1].edges
              /\ SameNeighbors(neighbors', result'[1].neighbors)
              /\ comod_matrix' = result'[1].comod_matrix
              /\ access_history' = <<>>
       /\ (call'.op = "record_access" /\ calls' = calls + 1
               /\ call.op = "load_hybrid_graph" /\ result # <<>>)
           => /\ edges' = edges
              /\ Len(access_history') = 1]_vars

\* a.py was added and accessed, the graph saved and loaded, and B.py accessed
\* right after: the node still counts one access, the history holds B.py
\* alone and there is no edge
C27_Witness ==
    /\ call.op = "record_access" /\ call.source = IdB
    /\ calls = 5
    /\ snapshot.kind = "ok"
    /\ Len(nodes) = 1 /\ nodes[1].id = IdA /\ nodes[1].access_count = 1
    /\ Len(access_history) = 1 /\ access_history[1].id = IdB
    /\ DOMAIN edges = {}

\* C28: edges are keyed by the ordered pair, and get_related_nodes(q) scores
\* a neighbor n with one edge only: the combined weight of the edge (q, n)
\* when it exists, of the edge (n, q) otherwise; when both exist the weights
\* on (n, q) add nothing.
C28_OneEdgePerNeighbor ==
    [][(call'.op = "get_related_nodes")
       => \A i \in 1..Len(result') :
              LET q == call'.source
                  n == result'[i].key
              IN  /\ EdgeId(q, n) \in DOMAIN edges
                         => result'[i].score = GetCombinedWeight(edges[EdgeId(q, n)])
                  /\ EdgeId(q, n) \notin DOMAIN edges
                         => /\ EdgeId(n, q) \in DOMAIN edges
                            /\ result'[i].score = GetCombinedWeight(edges[EdgeId(n, q)])]_vars

\* a.py was asked about while both a.py|B.py (similar, 0.5) and B.py|a.py
\* (calls, 1.0) exist: B.py is scored with the weight of a.py|B.py alone
C28_Witness ==
    /\ call.op = "get_related_nodes" /\ call.source = IdA
    /\ {EdgeId(IdA, IdB), EdgeId(IdB, IdA)} \subseteq DOMAIN edges
    /\ FLess(GetCombinedWeight(edges[EdgeId(IdA, IdB)]),
             GetCombinedWeight(edges[EdgeId(IdB, IdA)]))
    /\ result = <<[key |-> IdB, score |-> GetCombinedWeight(edges[EdgeId(IdA, IdB)])]>>

\* the edges that start or end at a node
EdgesTouching(g, id) ==
    {k \in DOMAIN g.edges : id \in {g.edges[k].source, g.edges[k].target}}

\* the graph a hybrid_search answers from: the snapshot's, or the new build
\* it has saved
SearchedGraph == FromDict(IF call'.built THEN snapshot'.data ELSE snapshot.data)

\* C29: the relationship kinds hybrid_search reports with a node are exactly
\* the union of relationship_types of the edges whose source or target is
\* that node's id, and no kind that only edges between other nodes have.
C29_KindsOfOwnEdges ==
    [][(call'.op = "hybrid_search" /\ calls' = calls + 1 /\ ~call'.raised)
       => LET hits == Search(SearchedGraph, call'.query, call'.limit)
          IN  /\ Len(result') = Len(hits)
              /\ \A i \in 1..Len(hits) :
                     Range(result'[i].rel_types)
                         = UNION {Range(SearchedGraph.edges[k].relationship_types) :
                                     k \in EdgesTouching(SearchedGraph, hits[i].key.id)}]_vars

\* the commits made without their own pre-commit hook run
Bypassed == {i \in 1..Len(commitLog.commits) : ~commitLog.commits[i].hooked}

\* every commit has its record in hook_guardian.json
AllRecorded ==
    \A i \in 1..Len(commitLog.commits) :
        HasRecord(guardian.data.records, Prefix(commitLog.commits[i].hash, HashLength))

\* C30: whatever the order of pre-commit runs, aborted commits and commits,
\* once the record_commit of every written commit has run and has stored its
\* record, every commit made without its own pre-commit hook run is stored
\* with pre_commit_ran = false and counted in bypasses_detected, and
\* verify_all_commits returns False while such a commit is unpushed.
C30_EveryBypassDetected ==
    (/\ commitLog.written = 0
     /\ \A i \in 1..Len(waiting) : waiting[i].op # "record_commit"
     /\ AllRecorded)
    => /\ \A i \in Bypassed :
              LET h == Prefix(commitLog.commits[i].hash, HashLength)
              IN  /\ HasRecord(guardian.data.records, h)
                  /\ ~RecordOf(guardian.data.records, h).pre_commit_ran
       /\ guardian.data.bypasses_detected = Cardinality(Bypassed)
       /\ (\E i \in Bypassed : i > commitLog.pushed)
              => ~VerifyAllCommits(guardian.data, GitUnpushed(commitLog))

====
